---- MODULE Spec2Model ----
(***************************************************************************)
(* State-machine model of the Star Chess rules engine (ChessEngine in      *)
(* src/chess-engine.js).  A position is the record of the fields of one    *)
(* ChessEngine object; every method is an operator from the object (and    *)
(* the arguments) to the object after the call and the value returned.     *)
(* Rows and columns are 0..7 as in the source: row 0 is rank 8, column 0   *)
(* is file a.  board[row + 1][col + 1] is the square (row, col).           *)
(***************************************************************************)
EXTENDS Integers, Sequences, FiniteSets, TLC

\* ------------------------------------------------------------------------
\* Values
\* ------------------------------------------------------------------------

\* JavaScript null for a square without a piece / an absent captured piece.
NoPiece == [type |-> "-", color |-> "-"]

\* JavaScript null for enPassantTarget and for findKing's "not found".
NoSquare == [row |-> -1, col |-> -1]

Piece(t, c) == [type |-> t, color |-> c]

Square(r, c) == [row |-> r, col |-> c]

Opponent(color) == IF color = "white" THEN "black" ELSE "white"

emptyRow == <<NoPiece, NoPiece, NoPiece, NoPiece, NoPiece, NoPiece, NoPiece, NoPiece>>

emptyBoard == <<emptyRow, emptyRow, emptyRow, emptyRow, emptyRow, emptyRow, emptyRow, emptyRow>>

backRank(c) ==
    << Piece("r", c), Piece("n", c), Piece("b", c), Piece("q", c),
       Piece("k", c), Piece("b", c), Piece("n", c), Piece("r", c) >>

pawnRank(c) == [i \in 1..8 |-> Piece("p", c)]

createInitialBoard ==
    << backRank("black"), pawnRank("black"), emptyRow, emptyRow,
       emptyRow, emptyRow, pawnRank("white"), backRank("white") >>

\* The object after reset(): the constructor calls reset().
resetEngine ==
    [ board |-> createInitialBoard,
      currentPlayer |-> "white",
      moveHistory |-> <<>>,
      capturedPieces |-> [white |-> <<>>, black |-> <<>>],
      castlingRights |-> [white |-> [kingSide |-> TRUE, queenSide |-> TRUE],
                          black |-> [kingSide |-> TRUE, queenSide |-> TRUE]],
      enPassantTarget |-> NoSquare,
      halfMoveClock |-> 0,
      fullMoveNumber |-> 1,
      positionHistory |-> <<>>,
      gameState |-> "playing" ]

\* ------------------------------------------------------------------------
\* Board access
\* ------------------------------------------------------------------------

getPiece(e, row, col) ==
    IF row < 0 \/ row > 7 \/ col < 0 \/ col > 7
    THEN NoPiece
    ELSE e.board[row + 1][col + 1]

setPiece(e, row, col, piece) ==
    [e EXCEPT !.board[row + 1][col + 1] = piece]

\* Row-major square indices 0..63, the order of the source's nested loops.
squareIndices == [i \in 1..64 |-> i - 1]

pieceAt(e, idx) == e.board[(idx \div 8) + 1][(idx % 8) + 1]

\* The first king of the colour in row-major order.
findKing(e, color) ==
    LET king == Piece("k", color)
        rows == { r \in 0..7 : \E c \in 1..8 : e.board[r + 1][c] = king }
    IN IF rows = {}
       THEN NoSquare
       ELSE LET row == CHOOSE r \in rows : \A q \in rows : r <= q
                cols == { c \in 0..7 : e.board[row + 1][c + 1] = king }
            IN Square(row, CHOOSE c \in cols : \A d \in cols : c <= d)

\* The squares holding a piece of the colour, in row-major order.
squaresOf(e, color) ==
    SelectSeq(squareIndices, LAMBDA idx : pieceAt(e, idx).color = color)

\* ------------------------------------------------------------------------
\* Attack detection
\* ------------------------------------------------------------------------

knightOffsets ==
    << <<-2, -1>>, <<-2, 1>>, <<-1, -2>>, <<-1, 2>>,
       <<1, -2>>, <<1, 2>>, <<2, -1>>, <<2, 1>> >>

kingOffsets ==
    << <<-1, -1>>, <<-1, 0>>, <<-1, 1>>, <<0, -1>>,
       <<0, 1>>, <<1, -1>>, <<1, 0>>, <<1, 1>> >>

rookDirections == << <<-1, 0>>, <<1, 0>>, <<0, -1>>, <<0, 1>> >>

bishopDirections == << <<-1, -1>>, <<-1, 1>>, <<1, -1>>, <<1, 1>> >>

\* One ray of the sliding-piece scan: the first piece met decides.
RECURSIVE rayAttacked(_, _, _, _, _, _, _)
rayAttacked(e, r, c, dr, dc, attackerColor, types) ==
    IF r < 0 \/ r > 7 \/ c < 0 \/ c > 7
    THEN FALSE
    ELSE LET piece == e.board[r + 1][c + 1]
         IN IF piece # NoPiece
            THEN piece.color = attackerColor /\ piece.type \in types
            ELSE rayAttacked(e, r + dr, c + dc, dr, dc, attackerColor, types)

isSquareAttacked(e, row, col, attackerColor) ==
    LET pawnDir == IF attackerColor = "white" THEN 1 ELSE -1
        at(r, c, t) == LET piece == getPiece(e, r, c)
                       IN piece.type = t /\ piece.color = attackerColor
    IN \/ at(row + pawnDir, col - 1, "p")
       \/ at(row + pawnDir, col + 1, "p")
       \/ \E i \in 1..8 : at(row + knightOffsets[i][1], col + knightOffsets[i][2], "n")
       \/ \E i \in 1..8 : at(row + kingOffsets[i][1], col + kingOffsets[i][2], "k")
       \/ \E i \in 1..4 :
             rayAttacked(e, row + rookDirections[i][1], col + rookDirections[i][2],
                         rookDirections[i][1], rookDirections[i][2],
                         attackerColor, {"r", "q"})
       \/ \E i \in 1..4 :
             rayAttacked(e, row + bishopDirections[i][1], col + bishopDirections[i][2],
                         bishopDirections[i][1], bishopDirections[i][2],
                         attackerColor, {"b", "q"})

isInCheck(e, color) ==
    LET king == findKing(e, color)
    IN IF king = NoSquare
       THEN FALSE
       ELSE isSquareAttacked(e, king.row, king.col, Opponent(color))

\* ------------------------------------------------------------------------
\* Pseudo-legal move generation.  A candidate move is the record the source
\* pushes; a flag the source leaves out is FALSE (castling: "").
\* ------------------------------------------------------------------------

Move(row, col) ==
    [ row |-> row, col |-> col, capture |-> FALSE, promotion |-> FALSE,
      enPassant |-> FALSE, castling |-> "", doublePush |-> FALSE ]

\* The two capture squares of a pawn, in the order of the loop over [-1, 1].
pawnCaptures(e, row, col, color, dc) ==
    LET newRow == row + (IF color = "white" THEN -1 ELSE 1)
        promotionRow == IF color = "white" THEN 0 ELSE 7
        newCol == col + dc
        targetPiece == getPiece(e, newRow, newCol)
    IN IF newCol >= 0 /\ newCol < 8
       THEN (IF targetPiece # NoPiece /\ targetPiece.color # color
             THEN IF newRow = promotionRow
                  THEN << [Move(newRow, newCol) EXCEPT !.capture = TRUE, !.promotion = TRUE] >>
                  ELSE << [Move(newRow, newCol) EXCEPT !.capture = TRUE] >>
             ELSE << >>)
            \o
            (IF e.enPassantTarget # NoSquare
                /\ e.enPassantTarget.row = newRow
                /\ e.enPassantTarget.col = newCol
             THEN << [Move(newRow, newCol) EXCEPT !.enPassant = TRUE, !.capture = TRUE] >>
             ELSE << >>)
       ELSE << >>

getPawnMoves(e, row, col, color) ==
    LET direction == IF color = "white" THEN -1 ELSE 1
        startRow == IF color = "white" THEN 6 ELSE 1
        promotionRow == IF color = "white" THEN 0 ELSE 7
        newRow == row + direction
        doubleRow == row + 2 * direction
    IN (IF newRow >= 0 /\ newRow < 8 /\ getPiece(e, newRow, col) = NoPiece
        THEN (IF newRow = promotionRow
              THEN << [Move(newRow, col) EXCEPT !.promotion = TRUE] >>
              ELSE << Move(newRow, col) >>)
             \o
             (IF row = startRow /\ getPiece(e, doubleRow, col) = NoPiece
              THEN << [Move(doubleRow, col) EXCEPT !.doublePush = TRUE] >>
              ELSE << >>)
        ELSE << >>)
       \o pawnCaptures(e, row, col, color, -1)
       \o pawnCaptures(e, row, col, color, 1)

\* Knight and king steps: one move per offset that stays on the board and
\* does not land on an own piece.
RECURSIVE offsetMoves(_, _, _, _, _, _)
offsetMoves(e, row, col, color, offsets, i) ==
    IF i > Len(offsets)
    THEN << >>
    ELSE LET newRow == row + offsets[i][1]
             newCol == col + offsets[i][2]
             targetPiece == getPiece(e, newRow, newCol)
         IN (IF newRow >= 0 /\ newRow < 8 /\ newCol >= 0 /\ newCol < 8
                /\ (targetPiece = NoPiece \/ targetPiece.color # color)
             THEN << [Move(newRow, newCol) EXCEPT !.capture = (targetPiece # NoPiece)] >>
             ELSE << >>)
            \o offsetMoves(e, row, col, color, offsets, i + 1)

\* A faulty getKnightMoves: the loop over the offsets starts at the second.
getKnightMovesFromSecond(e, row, col, color) ==
    offsetMoves(e, row, col, color, knightOffsets, 2)

getKnightMoves(e, row, col, color) == offsetMoves(e, row, col, color, knightOffsets, 1)

RECURSIVE slide(_, _, _, _, _, _)
slide(e, r, c, dr, dc, color) ==
    IF r < 0 \/ r > 7 \/ c < 0 \/ c > 7
    THEN << >>
    ELSE LET targetPiece == e.board[r + 1][c + 1]
         IN IF targetPiece = NoPiece
            THEN << Move(r, c) >> \o slide(e, r + dr, c + dc, dr, dc, color)
            ELSE IF targetPiece.color # color
                 THEN << [Move(r, c) EXCEPT !.capture = TRUE] >>
                 ELSE << >>

RECURSIVE getSlidingMoves(_, _, _, _, _, _)
getSlidingMoves(e, row, col, color, directions, i) ==
    IF i > Len(directions)
    THEN << >>
    ELSE slide(e, row + directions[i][1], col + directions[i][2],
               directions[i][1], directions[i][2], color)
         \o getSlidingMoves(e, row, col, color, directions, i + 1)

getBishopMoves(e, row, col, color) == getSlidingMoves(e, row, col, color, bishopDirections, 1)

getRookMoves(e, row, col, color) == getSlidingMoves(e, row, col, color, rookDirections, 1)

getQueenMoves(e, row, col, color) ==
    getBishopMoves(e, row, col, color) \o getRookMoves(e, row, col, color)

\* A faulty getKingMoves: queenside castling also asks that the square next
\* to the rook is not attacked.
getKingMovesRookTransit(e, row, col, color) ==
    LET baseRow == IF color = "white" THEN 7 ELSE 0
        opponentColor == Opponent(color)
    IN offsetMoves(e, row, col, color, kingOffsets, 1)
       \o
       (IF ~isInCheck(e, color)
        THEN (IF e.castlingRights[color].kingSide
                 /\ getPiece(e, baseRow, 5) = NoPiece
                 /\ getPiece(e, baseRow, 6) = NoPiece
                 /\ ~isSquareAttacked(e, baseRow, 5, opponentColor)
                 /\ ~isSquareAttacked(e, baseRow, 6, opponentColor)
              THEN << [Move(baseRow, 6) EXCEPT !.castling = "kingSide"] >>
              ELSE << >>)
             \o
             (IF e.castlingRights[color].queenSide
                 /\ getPiece(e, baseRow, 1) = NoPiece
                 /\ getPiece(e, baseRow, 2) = NoPiece
                 /\ getPiece(e, baseRow, 3) = NoPiece
                 /\ ~isSquareAttacked(e, baseRow, 1, opponentColor)
                 /\ ~isSquareAttacked(e, baseRow, 2, opponentColor)
                 /\ ~isSquareAttacked(e, baseRow, 3, opponentColor)
              THEN << [Move(baseRow, 2) EXCEPT !.castling = "queenSide"] >>
              ELSE << >>)
        ELSE << >>)

getKingMoves(e, row, col, color) ==
    LET baseRow == IF color = "white" THEN 7 ELSE 0
        opponentColor == Opponent(color)
    IN offsetMoves(e, row, col, color, kingOffsets, 1)
       \o
       (IF ~isInCheck(e, color)
        THEN (IF e.castlingRights[color].kingSide
                 /\ getPiece(e, baseRow, 5) = NoPiece
                 /\ getPiece(e, baseRow, 6) = NoPiece
                 /\ ~isSquareAttacked(e, baseRow, 5, opponentColor)
                 /\ ~isSquareAttacked(e, baseRow, 6, opponentColor)
              THEN << [Move(baseRow, 6) EXCEPT !.castling = "kingSide"] >>
              ELSE << >>)
             \o
             (IF e.castlingRights[color].queenSide
                 /\ getPiece(e, baseRow, 1) = NoPiece
                 /\ getPiece(e, baseRow, 2) = NoPiece
                 /\ getPiece(e, baseRow, 3) = NoPiece
                 /\ ~isSquareAttacked(e, baseRow, 2, opponentColor)
                 /\ ~isSquareAttacked(e, baseRow, 3, opponentColor)
              THEN << [Move(baseRow, 2) EXCEPT !.castling = "queenSide"] >>
              ELSE << >>)
        ELSE << >>)

getPseudoLegalMoves(e, row, col, piece) ==
    CASE piece.type = "p" -> getPawnMoves(e, row, col, piece.color)
      [] piece.type = "n" -> getKnightMoves(e, row, col, piece.color)
      [] piece.type = "b" -> getBishopMoves(e, row, col, piece.color)
      [] piece.type = "r" -> getRookMoves(e, row, col, piece.color)
      [] piece.type = "q" -> getQueenMoves(e, row, col, piece.color)
      [] piece.type = "k" -> getKingMoves(e, row, col, piece.color)
      [] OTHER -> << >>

\* ------------------------------------------------------------------------
\* Legality filter.  The source probes a move in place on this.board and
\* reverts it, so each of these operators returns the object as the call
\* leaves it (field e) next to the value it returns.
\* ------------------------------------------------------------------------

\* A faulty isMoveLegal: the probe puts the moved piece back but leaves the
\* target square empty instead of restoring the piece that stood there.
isMoveLegalKeepsCapture(e, fromRow, fromCol, toRow, toCol, piece) ==
    LET originalEnPassant == e.enPassantTarget
        e1 == setPiece(setPiece(e, toRow, toCol, piece), fromRow, fromCol, NoPiece)
        isEnPassant == /\ piece.type = "p"
                       /\ e1.enPassantTarget # NoSquare
                       /\ toRow = e1.enPassantTarget.row
                       /\ toCol = e1.enPassantTarget.col
        capturedRow == IF piece.color = "white" THEN toRow + 1 ELSE toRow - 1
        capturedEnPassant == IF isEnPassant THEN getPiece(e1, capturedRow, toCol) ELSE NoPiece
        e2 == IF isEnPassant THEN setPiece(e1, capturedRow, toCol, NoPiece) ELSE e1
        inCheck == isInCheck(e2, piece.color)
        e3 == setPiece(setPiece(e2, fromRow, fromCol, piece), toRow, toCol, NoPiece)
        e4 == [e3 EXCEPT !.enPassantTarget = originalEnPassant]
        e5 == IF capturedEnPassant # NoPiece
              THEN setPiece(e4, capturedRow, toCol, capturedEnPassant)
              ELSE e4
    IN [legal |-> ~inCheck, e |-> e5]

\* A faulty isMoveLegal: the pawn an en-passant probe takes off the board is
\* not put back.
isMoveLegalDropsPassedPawn(e, fromRow, fromCol, toRow, toCol, piece) ==
    LET originalPiece == getPiece(e, toRow, toCol)
        originalEnPassant == e.enPassantTarget
        e1 == setPiece(setPiece(e, toRow, toCol, piece), fromRow, fromCol, NoPiece)
        isEnPassant == /\ piece.type = "p"
                       /\ e1.enPassantTarget # NoSquare
                       /\ toRow = e1.enPassantTarget.row
                       /\ toCol = e1.enPassantTarget.col
        capturedRow == IF piece.color = "white" THEN toRow + 1 ELSE toRow - 1
        capturedEnPassant == IF isEnPassant THEN getPiece(e1, capturedRow, toCol) ELSE NoPiece
        e2 == IF isEnPassant THEN setPiece(e1, capturedRow, toCol, NoPiece) ELSE e1
        inCheck == isInCheck(e2, piece.color)
        e3 == setPiece(setPiece(e2, fromRow, fromCol, piece), toRow, toCol, originalPiece)
        e4 == [e3 EXCEPT !.enPassantTarget = originalEnPassant]
    IN [legal |-> ~inCheck, e |-> e4]

isMoveLegal(e, fromRow, fromCol, toRow, toCol, piece) ==
    LET originalPiece == getPiece(e, toRow, toCol)
        originalEnPassant == e.enPassantTarget
        e1 == setPiece(setPiece(e, toRow, toCol, piece), fromRow, fromCol, NoPiece)
        isEnPassant == /\ piece.type = "p"
                       /\ e1.enPassantTarget # NoSquare
                       /\ toRow = e1.enPassantTarget.row
                       /\ toCol = e1.enPassantTarget.col
        capturedRow == IF piece.color = "white" THEN toRow + 1 ELSE toRow - 1
        capturedEnPassant == IF isEnPassant THEN getPiece(e1, capturedRow, toCol) ELSE NoPiece
        e2 == IF isEnPassant THEN setPiece(e1, capturedRow, toCol, NoPiece) ELSE e1
        inCheck == isInCheck(e2, piece.color)
        e3 == setPiece(setPiece(e2, fromRow, fromCol, piece), toRow, toCol, originalPiece)
        e4 == [e3 EXCEPT !.enPassantTarget = originalEnPassant]
        e5 == IF capturedEnPassant # NoPiece
              THEN setPiece(e4, capturedRow, toCol, capturedEnPassant)
              ELSE e4
    IN [legal |-> ~inCheck, e |-> e5]

\* The loop of getValidMoves over the pseudo-legal moves, from index i on.
RECURSIVE filterLegal(_, _, _, _, _, _)
filterLegal(e, row, col, piece, pseudoLegalMoves, i) ==
    IF i > Len(pseudoLegalMoves)
    THEN [moves |-> << >>, e |-> e]
    ELSE LET move == pseudoLegalMoves[i]
             keep(legal, rest) ==
                 [ moves |-> (IF legal THEN << move >> ELSE << >>) \o rest.moves,
                   e |-> rest.e ]
             next(probe) ==
                 keep(probe.legal,
                      filterLegal(probe.e, row, col, piece, pseudoLegalMoves, i + 1))
         IN next(isMoveLegal(e, row, col, move.row, move.col, piece))

\* A faulty getValidMoves: the pseudo-legal moves, not filtered.
getValidMovesUnfiltered(e, row, col) ==
    LET piece == getPiece(e, row, col)
    IN IF piece = NoPiece \/ piece.color # e.currentPlayer
       THEN [moves |-> << >>, e |-> e]
       ELSE [moves |-> getPseudoLegalMoves(e, row, col, piece), e |-> e]

getValidMoves(e, row, col) ==
    LET piece == getPiece(e, row, col)
    IN IF piece = NoPiece \/ piece.color # e.currentPlayer
       THEN [moves |-> << >>, e |-> e]
       ELSE filterLegal(e, row, col, piece, getPseudoLegalMoves(e, row, col, piece), 1)

\* The loop of hasLegalMoves over the squares of the colour, from the i-th
\* on: the first piece with a legal move returns true.
RECURSIVE hasLegalMovesFrom(_, _, _, _)
hasLegalMovesFrom(e, color, squares, i) ==
    IF i > Len(squares)
    THEN [has |-> FALSE, e |-> e]
    ELSE LET row == squares[i] \div 8
             col == squares[i] % 8
             originalPlayer == e.currentPlayer
             next(moves, e1) ==
                 IF Len(moves) > 0
                 THEN [has |-> TRUE, e |-> e1]
                 ELSE hasLegalMovesFrom(e1, color, squares, i + 1)
             restore(valid) ==
                 next(valid.moves, [valid.e EXCEPT !.currentPlayer = originalPlayer])
         IN restore(getValidMoves([e EXCEPT !.currentPlayer = color], row, col))

hasLegalMoves(e, color) == hasLegalMovesFrom(e, color, squaresOf(e, color), 1)

isCheckmate(e, color) ==
    IF ~isInCheck(e, color)
    THEN [val |-> FALSE, e |-> e]
    ELSE LET not(h) == [val |-> ~h.has, e |-> h.e] IN not(hasLegalMoves(e, color))

\* A faulty isStalemate: the side is never found stalemated.
isStalemateNever(e, color) == [val |-> FALSE, e |-> e]

isStalemate(e, color) ==
    IF isInCheck(e, color)
    THEN [val |-> FALSE, e |-> e]
    ELSE LET not(h) == [val |-> ~h.has, e |-> h.e] IN not(hasLegalMoves(e, color))

\* The loop of getAllLegalMoves over the squares of the side to move, from
\* the i-th on.  An entry is {from, to, piece, ...move}.
RECURSIVE getAllLegalMovesFrom(_, _, _)
getAllLegalMovesFrom(e, squares, i) ==
    IF i > Len(squares)
    THEN [moves |-> << >>, e |-> e]
    ELSE LET row == squares[i] \div 8
             col == squares[i] % 8
             push(moves, rest) ==
                 [ moves |-> [k \in 1..Len(moves) |->
                                [from |-> Square(row, col),
                                 to |-> Square(moves[k].row, moves[k].col),
                                 piece |-> getPiece(e, row, col),
                                 move |-> moves[k]]]
                             \o rest.moves,
                   e |-> rest.e ]
             next(valid) ==
                 push(valid.moves, getAllLegalMovesFrom(valid.e, squares, i + 1))
         IN next(getValidMoves(e, row, col))

getAllLegalMoves(e) == getAllLegalMovesFrom(e, squaresOf(e, e.currentPlayer), 1)

\* ------------------------------------------------------------------------
\* Draw conditions
\* ------------------------------------------------------------------------

squareKey(piece) ==
    IF piece = NoPiece
    THEN "--"
    ELSE (IF piece.color = "white" THEN "w" ELSE "b") \o piece.type

rowKey(r) ==
    squareKey(r[1]) \o squareKey(r[2]) \o squareKey(r[3]) \o squareKey(r[4])
    \o squareKey(r[5]) \o squareKey(r[6]) \o squareKey(r[7]) \o squareKey(r[8])

\* The repetition key: a string, built by concatenation as in the source.
getPositionKey(e) ==
    rowKey(e.board[1]) \o rowKey(e.board[2]) \o rowKey(e.board[3]) \o rowKey(e.board[4])
    \o rowKey(e.board[5]) \o rowKey(e.board[6]) \o rowKey(e.board[7]) \o rowKey(e.board[8])
    \o e.currentPlayer
    \o (IF e.castlingRights.white.kingSide THEN "K" ELSE "")
    \o (IF e.castlingRights.white.queenSide THEN "Q" ELSE "")
    \o (IF e.castlingRights.black.kingSide THEN "k" ELSE "")
    \o (IF e.castlingRights.black.queenSide THEN "q" ELSE "")
    \o (IF e.enPassantTarget # NoSquare
        THEN ToString(e.enPassantTarget.row) \o ToString(e.enPassantTarget.col)
        ELSE "")

\* Square indices (row-major) of the pieces of a colour that are not kings.
nonKingPieces(e, color) ==
    { idx \in 0..63 :
        LET piece == pieceAt(e, idx)
        IN piece # NoPiece /\ piece.type # "k" /\ piece.color = color }

\* A faulty isInsufficientMaterial: the colours of the squares of the two
\* bishops are not compared.
isInsufficientMaterialAnyBishops(e) ==
    LET whitePieces == nonKingPieces(e, "white")
        blackPieces == nonKingPieces(e, "black")
        typeAt(idx) == pieceAt(e, idx).type
        only(s) == CHOOSE idx \in s : TRUE
    IN \/ whitePieces = {} /\ blackPieces = {}
       \/ /\ whitePieces = {} /\ Cardinality(blackPieces) = 1
          /\ typeAt(only(blackPieces)) \in {"b", "n"}
       \/ /\ blackPieces = {} /\ Cardinality(whitePieces) = 1
          /\ typeAt(only(whitePieces)) \in {"b", "n"}
       \/ /\ Cardinality(whitePieces) = 1 /\ Cardinality(blackPieces) = 1
          /\ typeAt(only(whitePieces)) = "b" /\ typeAt(only(blackPieces)) = "b"

isInsufficientMaterial(e) ==
    LET whitePieces == nonKingPieces(e, "white")
        blackPieces == nonKingPieces(e, "black")
        typeAt(idx) == pieceAt(e, idx).type
        only(s) == CHOOSE idx \in s : TRUE
        squareColor(idx) == ((idx \div 8) + (idx % 8)) % 2
    IN \/ whitePieces = {} /\ blackPieces = {}
       \/ /\ whitePieces = {} /\ Cardinality(blackPieces) = 1
          /\ typeAt(only(blackPieces)) \in {"b", "n"}
       \/ /\ blackPieces = {} /\ Cardinality(whitePieces) = 1
          /\ typeAt(only(whitePieces)) \in {"b", "n"}
       \/ /\ Cardinality(whitePieces) = 1 /\ Cardinality(blackPieces) = 1
          /\ typeAt(only(whitePieces)) = "b" /\ typeAt(only(blackPieces)) = "b"
          /\ squareColor(only(whitePieces)) = squareColor(only(blackPieces))

\* A faulty isDraw: the half-move clock is not looked at.
isDrawWithoutClock(e) ==
    \/ LET currentPosition == getPositionKey(e)
       IN Cardinality({ i \in 1..Len(e.positionHistory) :
                          e.positionHistory[i] = currentPosition }) >= 3
    \/ isInsufficientMaterial(e)

isDraw(e) ==
    \/ e.halfMoveClock >= 100
    \/ LET currentPosition == getPositionKey(e)
       IN Cardinality({ i \in 1..Len(e.positionHistory) :
                          e.positionHistory[i] = currentPosition }) >= 3
    \/ isInsufficientMaterial(e)

\* ------------------------------------------------------------------------
\* makeMove
\* ------------------------------------------------------------------------

\* JavaScript null returned by makeMove and undoMove.
NullRecord ==
    [ from |-> NoSquare, to |-> NoSquare, piece |-> NoPiece, captured |-> NoPiece,
      castling |-> "", enPassant |-> FALSE, promotion |-> "",
      check |-> FALSE, checkmate |-> FALSE ]

\* validMoves.find(m => m.row === toRow && m.col === toCol): index of the
\* first match, 0 when there is none.
findMove(validMoves, toRow, toCol) ==
    LET hits == { i \in 1..Len(validMoves) :
                    validMoves[i].row = toRow /\ validMoves[i].col = toCol }
    IN IF hits = {} THEN 0 ELSE CHOOSE i \in hits : \A j \in hits : i <= j

\* The capture, castling and piece relocation of makeMove (the board part).
applyToBoard(e, fromRow, fromCol, toRow, toCol, piece, move, promotionPiece) ==
    LET capturedRow == IF piece.color = "white" THEN toRow + 1 ELSE toRow - 1
        e1 == IF move.enPassant THEN setPiece(e, capturedRow, toCol, NoPiece) ELSE e
        baseRow == IF piece.color = "white" THEN 7 ELSE 0
        e2 == IF move.castling = "kingSide"
              THEN setPiece(setPiece(e1, baseRow, 5, getPiece(e1, baseRow, 7)),
                            baseRow, 7, NoPiece)
              ELSE IF move.castling = "queenSide"
                   THEN setPiece(setPiece(e1, baseRow, 3, getPiece(e1, baseRow, 0)),
                                 baseRow, 0, NoPiece)
                   ELSE e1
        e3 == IF move.promotion
              THEN setPiece(e2, toRow, toCol, Piece(promotionPiece, piece.color))
              ELSE setPiece(e2, toRow, toCol, piece)
    IN setPiece(e3, fromRow, fromCol, NoPiece)

\* Castling rights after a move of `piece` from column fromCol to column
\* toCol that captured capturedPiece.
updateCastlingRights(rights, piece, fromCol, toCol, capturedPiece) ==
    LET r1 == IF piece.type = "k"
              THEN [rights EXCEPT ![piece.color] = [kingSide |-> FALSE, queenSide |-> FALSE]]
              ELSE rights
        r2 == IF piece.type = "r" /\ fromCol = 0
              THEN [r1 EXCEPT ![piece.color].queenSide = FALSE]
              ELSE r1
        r3 == IF piece.type = "r" /\ fromCol = 7
              THEN [r2 EXCEPT ![piece.color].kingSide = FALSE]
              ELSE r2
        r4 == IF capturedPiece # NoPiece /\ capturedPiece.type = "r" /\ toCol = 0
              THEN [r3 EXCEPT ![capturedPiece.color].queenSide = FALSE]
              ELSE r3
    IN IF capturedPiece # NoPiece /\ capturedPiece.type = "r" /\ toCol = 7
       THEN [r4 EXCEPT ![capturedPiece.color].kingSide = FALSE]
       ELSE r4

\* A faulty classification: the draw conditions are tested before the
\* no-legal-move conditions.
classifyDrawFirst(e) ==
    LET opponentColor == e.currentPlayer
        inCheck(mate) ==
            [ gameState |-> IF mate.val THEN "checkmate" ELSE "check",
              check |-> TRUE, checkmate |-> mate.val, e |-> mate.e ]
        notInCheck(stale) ==
            [ gameState |-> IF stale.val THEN "stalemate" ELSE "playing",
              check |-> FALSE, checkmate |-> FALSE, e |-> stale.e ]
    IN IF isDraw(e)
       THEN [ gameState |-> "draw", check |-> FALSE, checkmate |-> FALSE, e |-> e ]
       ELSE IF isInCheck(e, opponentColor)
            THEN inCheck(isCheckmate(e, opponentColor))
            ELSE notInCheck(isStalemate(e, opponentColor))

\* The game-state classification at the end of makeMove; opponentColor is
\* the side now to move.  Returns the state, the check flags of the move
\* record and the object after the probes.
classify(e) ==
    LET opponentColor == e.currentPlayer
        inCheck(mate) ==
            [ gameState |-> IF mate.val THEN "checkmate" ELSE "check",
              check |-> TRUE, checkmate |-> mate.val, e |-> mate.e ]
        notInCheck(stale) ==
            [ gameState |-> IF stale.val THEN "stalemate"
                            ELSE IF isDraw(stale.e) THEN "draw" ELSE "playing",
              check |-> FALSE, checkmate |-> FALSE, e |-> stale.e ]
    IN IF isInCheck(e, opponentColor)
       THEN inCheck(isCheckmate(e, opponentColor))
       ELSE notInCheck(isStalemate(e, opponentColor))

\* A faulty recordPosition: the push is left out.
recordPositionSkipped(e) == e

\* this.positionHistory.push(this.getPositionKey()).
recordPosition(e) == [e EXCEPT !.positionHistory = Append(@, getPositionKey(e))]

\* A faulty en-passant update: every move sets a target, whatever piece
\* moved and however far.
updateEnPassantTargetKept(piece, fromRow, fromCol, toRow) ==
    Square(IF piece.color = "white" THEN fromRow - 1 ELSE fromRow + 1, fromCol)

\* The en-passant target after a move of piece from (fromRow, fromCol) to
\* row toRow.
updateEnPassantTarget(piece, fromRow, fromCol, toRow) ==
    IF piece.type = "p" /\ (toRow - fromRow = 2 \/ fromRow - toRow = 2)
    THEN Square(IF piece.color = "white" THEN fromRow - 1 ELSE fromRow + 1, fromCol)
    ELSE NoSquare

\* A faulty clock update: a capture by a piece other than a pawn does not
\* reset the clock.
updateHalfMoveClockPawnOnly(clock, piece, capturedPiece) ==
    IF piece.type = "p" THEN 0 ELSE clock + 1

\* The half-move clock after a move of piece that captured capturedPiece.
updateHalfMoveClock(clock, piece, capturedPiece) ==
    IF piece.type = "p" \/ capturedPiece # NoPiece THEN 0 ELSE clock + 1

\* makeMove from the point where the legal move has been found: move is the
\* entry of validMoves that matches (toRow, toCol), e the object after
\* getValidMoves.
applyMove(e, fromRow, fromCol, toRow, toCol, piece, move, promotionPiece) ==
    LET capturedRow == IF piece.color = "white" THEN toRow + 1 ELSE toRow - 1
        capturedPiece == IF move.enPassant
                         THEN getPiece(e, capturedRow, toCol)
                         ELSE getPiece(e, toRow, toCol)
        e1 == applyToBoard(e, fromRow, fromCol, toRow, toCol, piece, move, promotionPiece)
        e2 == [ e1 EXCEPT
                  !.capturedPieces[piece.color] =
                      IF capturedPiece # NoPiece THEN Append(@, capturedPiece) ELSE @,
                  !.enPassantTarget = updateEnPassantTarget(piece, fromRow, fromCol, toRow),
                  !.castlingRights =
                      updateCastlingRights(@, piece, fromCol, toCol, capturedPiece),
                  !.halfMoveClock = updateHalfMoveClock(@, piece, capturedPiece),
                  !.fullMoveNumber = IF piece.color = "black" THEN @ + 1 ELSE @,
                  !.currentPlayer = Opponent(@) ]
        moveRecord(state) ==
            [ from |-> Square(fromRow, fromCol), to |-> Square(toRow, toCol),
              piece |-> piece, captured |-> capturedPiece,
              castling |-> move.castling, enPassant |-> move.enPassant,
              promotion |-> IF move.promotion THEN promotionPiece ELSE "",
              check |-> state.check, checkmate |-> state.checkmate ]
        pushMove(state, record) ==
            [ result |-> record,
              e |-> [state.e EXCEPT !.gameState = state.gameState,
                                    !.moveHistory = Append(@, record)] ]
        finish(state) == pushMove(state, moveRecord(state))
    IN finish(classify(recordPosition(e2)))

\* makeMove once getValidMoves has returned valid for the from square.
makeMoveWith(e, valid, fromRow, fromCol, toRow, toCol, promotionPiece) ==
    LET piece == getPiece(e, fromRow, fromCol)
        k == findMove(valid.moves, toRow, toCol)
    IN IF piece = NoPiece
       THEN [result |-> NullRecord, e |-> e]
       ELSE IF k = 0
            THEN [result |-> NullRecord, e |-> valid.e]
            ELSE applyMove(valid.e, fromRow, fromCol, toRow, toCol,
                           piece, valid.moves[k], promotionPiece)

makeMove(e, fromRow, fromCol, toRow, toCol, promotionPiece) ==
    makeMoveWith(e, getValidMoves(e, fromRow, fromCol),
                 fromRow, fromCol, toRow, toCol, promotionPiece)

\* ------------------------------------------------------------------------
\* undoMove
\* ------------------------------------------------------------------------

\* Array.prototype.pop: the array without its last element (empty stays empty).
pop(s) == IF Len(s) = 0 THEN s ELSE SubSeq(s, 1, Len(s) - 1)

\* capturedList.splice(index, 1) at the first index whose type matches.
removeCaptured(capturedList, type) ==
    LET hits == { i \in 1..Len(capturedList) : capturedList[i].type = type }
        index == CHOOSE i \in hits : \A j \in hits : i <= j
    IN IF hits = {}
       THEN capturedList
       ELSE SubSeq(capturedList, 1, index - 1) \o SubSeq(capturedList, index + 1, Len(capturedList))

\* A faulty board part of undoMove: the pawn captured en passant is put
\* back on the square the capturing pawn moved to.
revertOnBoardCapturedOnTarget(e, lastMove) ==
    LET color == lastMove.piece.color
        e1 == setPiece(e, lastMove.from.row, lastMove.from.col, lastMove.piece)
        e2 == IF lastMove.promotion # ""
              THEN setPiece(e1, lastMove.from.row, lastMove.from.col, Piece("p", color))
              ELSE e1
        e3 == setPiece(e2, lastMove.to.row, lastMove.to.col, lastMove.captured)
        baseRow == IF color = "white" THEN 7 ELSE 0
    IN IF lastMove.castling = "kingSide"
       THEN setPiece(setPiece(e3, baseRow, 7, getPiece(e3, baseRow, 5)), baseRow, 5, NoPiece)
       ELSE IF lastMove.castling = "queenSide"
            THEN setPiece(setPiece(e3, baseRow, 0, getPiece(e3, baseRow, 3)), baseRow, 3, NoPiece)
            ELSE e3

\* The board part of undoMove.
revertOnBoard(e, lastMove) ==
    LET color == lastMove.piece.color
        e1 == setPiece(e, lastMove.from.row, lastMove.from.col, lastMove.piece)
        e2 == IF lastMove.promotion # ""
              THEN setPiece(e1, lastMove.from.row, lastMove.from.col, Piece("p", color))
              ELSE e1
        capturedRow == IF color = "white" THEN lastMove.to.row + 1 ELSE lastMove.to.row - 1
        e3 == IF lastMove.enPassant
              THEN setPiece(setPiece(e2, lastMove.to.row, lastMove.to.col, NoPiece),
                            capturedRow, lastMove.to.col, lastMove.captured)
              ELSE setPiece(e2, lastMove.to.row, lastMove.to.col, lastMove.captured)
        baseRow == IF color = "white" THEN 7 ELSE 0
    IN IF lastMove.castling = "kingSide"
       THEN setPiece(setPiece(e3, baseRow, 7, getPiece(e3, baseRow, 5)), baseRow, 5, NoPiece)
       ELSE IF lastMove.castling = "queenSide"
            THEN setPiece(setPiece(e3, baseRow, 0, getPiece(e3, baseRow, 3)), baseRow, 3, NoPiece)
            ELSE e3

\* The castling rights undoMove leaves: both flags of the colour come back
\* when the undone move is a king move and no king move of that colour is
\* left in moveHistory.
restoreCastlingRights(rights, lastMove, moveHistory) ==
    IF /\ lastMove.piece.type = "k"
       /\ \A i \in 1..Len(moveHistory) :
             ~(moveHistory[i].piece.type = "k"
               /\ moveHistory[i].piece.color = lastMove.piece.color)
    THEN [rights EXCEPT ![lastMove.piece.color] = [kingSide |-> TRUE, queenSide |-> TRUE]]
    ELSE rights

\* The en-passant target undoMove derives from the move before the undone one.
restoreEnPassant(moveHistory) ==
    IF Len(moveHistory) > 0
    THEN LET prevMove == moveHistory[Len(moveHistory)]
         IN IF /\ prevMove.piece.type = "p"
               /\ (prevMove.to.row - prevMove.from.row = 2
                   \/ prevMove.from.row - prevMove.to.row = 2)
            THEN Square(IF prevMove.piece.color = "white"
                        THEN prevMove.from.row - 1 ELSE prevMove.from.row + 1,
                        prevMove.from.col)
            ELSE NoSquare
    ELSE NoSquare

\* A faulty undoMove: with an empty moveHistory the side to move is still
\* switched and the en-passant target cleared before null is returned.
undoMoveUnguarded(e) ==
    IF Len(e.moveHistory) = 0
    THEN [ result |-> NullRecord,
           e |-> [e EXCEPT !.currentPlayer = Opponent(@), !.enPassantTarget = NoSquare] ]
    ELSE LET lastMove == e.moveHistory[Len(e.moveHistory)]
             e1 == [e EXCEPT !.moveHistory = pop(@), !.positionHistory = pop(@)]
             e2 == revertOnBoard(e1, lastMove)
             e3 == [ e2 EXCEPT
                       !.capturedPieces[lastMove.piece.color] =
                           IF lastMove.captured # NoPiece
                           THEN removeCaptured(@, lastMove.captured.type)
                           ELSE @,
                       !.currentPlayer = Opponent(@),
                       !.castlingRights =
                           restoreCastlingRights(@, lastMove, e1.moveHistory) ]
             finish(e4) ==
                 [ result |-> lastMove,
                   e |-> [e4 EXCEPT
                            !.gameState =
                                IF isInCheck(e4, e4.currentPlayer) THEN "check" ELSE "playing",
                            !.enPassantTarget = restoreEnPassant(e4.moveHistory)] ]
         IN finish(e3)

\* A faulty undoMove: gameState is left as the undone move set it.
undoMoveKeepsGameState(e) ==
    IF Len(e.moveHistory) = 0
    THEN [result |-> NullRecord, e |-> e]
    ELSE LET lastMove == e.moveHistory[Len(e.moveHistory)]
             e1 == [e EXCEPT !.moveHistory = pop(@), !.positionHistory = pop(@)]
             e2 == revertOnBoard(e1, lastMove)
             e3 == [ e2 EXCEPT
                       !.capturedPieces[lastMove.piece.color] =
                           IF lastMove.captured # NoPiece
                           THEN removeCaptured(@, lastMove.captured.type)
                           ELSE @,
                       !.currentPlayer = Opponent(@),
                       !.castlingRights =
                           restoreCastlingRights(@, lastMove, e1.moveHistory) ]
             finish(e4) ==
                 [ result |-> lastMove,
                   e |-> [e4 EXCEPT
                            !.enPassantTarget = restoreEnPassant(e4.moveHistory)] ]
         IN finish(e3)

undoMove(e) ==
    IF Len(e.moveHistory) = 0
    THEN [result |-> NullRecord, e |-> e]
    ELSE LET lastMove == e.moveHistory[Len(e.moveHistory)]
             e1 == [e EXCEPT !.moveHistory = pop(@), !.positionHistory = pop(@)]
             e2 == revertOnBoard(e1, lastMove)
             e3 == [ e2 EXCEPT
                       !.capturedPieces[lastMove.piece.color] =
                           IF lastMove.captured # NoPiece
                           THEN removeCaptured(@, lastMove.captured.type)
                           ELSE @,
                       !.currentPlayer = Opponent(@),
                       !.castlingRights =
                           restoreCastlingRights(@, lastMove, e1.moveHistory) ]
             finish(e4) ==
                 [ result |-> lastMove,
                   e |-> [e4 EXCEPT
                            !.gameState =
                                IF isInCheck(e4, e4.currentPlayer) THEN "check" ELSE "playing",
                            !.enPassantTarget = restoreEnPassant(e4.moveHistory)] ]
         IN finish(e3)

\* ------------------------------------------------------------------------
\* clone
\* ------------------------------------------------------------------------

\* new ChessEngine() followed by the field copies; the histories and the
\* captured lists of the clone are fresh empty arrays.
clone(e) ==
    [ resetEngine EXCEPT
        !.board = e.board,
        !.currentPlayer = e.currentPlayer,
        !.castlingRights = e.castlingRights,
        !.enPassantTarget = e.enPassantTarget,
        !.halfMoveClock = e.halfMoveClock,
        !.fullMoveNumber = e.fullMoveNumber,
        !.gameState = e.gameState,
        !.moveHistory = << >>,
        !.positionHistory = << >>,
        !.capturedPieces = [white |-> << >>, black |-> << >>] ]

\* ------------------------------------------------------------------------
\* FEN codec.  A string is the sequence of its characters (one-character
\* strings), so that parsing and printing are modelled character by
\* character.
\* ------------------------------------------------------------------------

digitChars == << "0", "1", "2", "3", "4", "5", "6", "7", "8", "9" >>

fileChars == << "a", "b", "c", "d", "e", "f", "g", "h" >>

isDigit(ch) == \E i \in 1..10 : digitChars[i] = ch

digitValue(ch) == (CHOOSE i \in 1..10 : digitChars[i] = ch) - 1

\* pieceMap of loadFromFEN: the piece a board character stands for.
pieceOfChar(ch) ==
    CASE ch = "r" -> Piece("r", "black") [] ch = "n" -> Piece("n", "black")
      [] ch = "b" -> Piece("b", "black") [] ch = "q" -> Piece("q", "black")
      [] ch = "k" -> Piece("k", "black") [] ch = "p" -> Piece("p", "black")
      [] ch = "R" -> Piece("r", "white") [] ch = "N" -> Piece("n", "white")
      [] ch = "B" -> Piece("b", "white") [] ch = "Q" -> Piece("q", "white")
      [] ch = "K" -> Piece("k", "white") [] ch = "P" -> Piece("p", "white")
      [] OTHER -> NoPiece

\* A faulty charOfPiece: the lower-case letter whatever the colour.
charOfPieceLower(piece) == piece.type

\* pieceMap of toFEN: the character of a piece.
charOfPiece(piece) ==
    LET lower == piece.type
        upper == CASE piece.type = "r" -> "R" [] piece.type = "n" -> "N"
                   [] piece.type = "b" -> "B" [] piece.type = "q" -> "Q"
                   [] piece.type = "k" -> "K" [] piece.type = "p" -> "P"
    IN IF piece.color = "white" THEN upper ELSE lower

\* String.prototype.trim for blanks.
RECURSIVE trimLeft(_)
trimLeft(s) == IF Len(s) > 0 /\ s[1] = " " THEN trimLeft(Tail(s)) ELSE s

RECURSIVE trimRight(_)
trimRight(s) == IF Len(s) > 0 /\ s[Len(s)] = " " THEN trimRight(SubSeq(s, 1, Len(s) - 1)) ELSE s

trim(s) == trimRight(trimLeft(s))

\* Positions of the separators in s, in increasing order.
separatorsAt(s, isSep(_)) ==
    SelectSeq([i \in 1..Len(s) |-> i], LAMBDA i : isSep(s[i]))

\* String.prototype.split on a one-character separator: the pieces between
\* consecutive separators, empty pieces included.
split(s, sep) ==
    LET at == separatorsAt(s, LAMBDA ch : ch = sep)
        n == Len(at)
        start(k) == IF k = 1 THEN 1 ELSE at[k - 1] + 1
        stop(k) == IF k = n + 1 THEN Len(s) ELSE at[k] - 1
    IN [k \in 1..(n + 1) |-> SubSeq(s, start(k), stop(k))]

\* split(/\s+/): a run of blanks is one separator.
splitBlanks(s) ==
    LET pieces == split(s, " ")
    IN IF Len(s) = 0
       THEN << << >> >>
       ELSE SelectSeq(pieces, LAMBDA p : Len(p) > 0)

\* parseInt of a string of decimal digits (the counters of the inputs used
\* here are digit strings): the value of its leading digits.
RECURSIVE parseIntFrom(_, _, _)
parseIntFrom(s, i, acc) ==
    IF i > Len(s) \/ ~isDigit(s[i])
    THEN acc
    ELSE parseIntFrom(s, i + 1, 10 * acc + digitValue(s[i]))

parseInt(s) == parseIntFrom(s, 1, 0)

\* Number-to-string conversion of a non-negative integer.
RECURSIVE numberToString(_)
numberToString(n) ==
    IF n < 10
    THEN << digitChars[n + 1] >>
    ELSE numberToString(n \div 10) \o << digitChars[(n % 10) + 1] >>

\* A faulty rowComplete: only a row of more than 8 squares is refused.
rowNotOverfull(col) == col <= 8

\* The test after the characters of a row: the row has 8 squares.
rowComplete(col) == col = 8

\* The loop over the characters of one board row, from the i-th on, with
\* col squares of the row filled so far.  ok is FALSE where the source
\* returns false; e is the object at that point.
RECURSIVE parseRow(_, _, _, _, _)
parseRow(e, row, chars, i, col) ==
    IF i > Len(chars)
    THEN [ok |-> rowComplete(col), e |-> e]
    ELSE LET char == chars[i]
         IN IF isDigit(char) /\ digitValue(char) >= 1 /\ digitValue(char) <= 8
            THEN parseRow(e, row, chars, i + 1, col + digitValue(char))
            ELSE IF pieceOfChar(char) # NoPiece
                 THEN IF col >= 8
                      THEN [ok |-> FALSE, e |-> e]
                      ELSE parseRow(setPiece(e, row, col, pieceOfChar(char)),
                                    row, chars, i + 1, col + 1)
                 ELSE [ok |-> FALSE, e |-> e]

\* The loop over the 8 rows, from row on.
RECURSIVE parseRows(_, _, _)
parseRows(e, rows, row) ==
    IF row > 7
    THEN [ok |-> TRUE, e |-> e]
    ELSE LET r == parseRow(e, row, rows[row + 1], 1, 0)
         IN IF r.ok THEN parseRows(r.e, rows, row + 1) ELSE r

parseCastling(castling) ==
    LET has(ch) == castling # << "-" >> /\ \E i \in 1..Len(castling) : castling[i] = ch
    IN [ white |-> [kingSide |-> has("K"), queenSide |-> has("Q")],
         black |-> [kingSide |-> has("k"), queenSide |-> has("q")] ]

\* The en-passant field: file letter and rank digit, null when the field is
\* "-" or names no square of the board.
parseEnPassant(enPassant) ==
    IF Len(enPassant) = 0 \/ enPassant = << "-" >>
    THEN NoSquare
    ELSE LET files == { i \in 1..8 : fileChars[i] = enPassant[1] }
             file == (CHOOSE i \in files : TRUE) - 1
             rank == 8 - digitValue(enPassant[2])
         IN IF files # {} /\ Len(enPassant) >= 2 /\ isDigit(enPassant[2])
               /\ rank >= 0 /\ rank < 8
            THEN Square(rank, file)
            ELSE NoSquare

loadFromFEN(e, fen) ==
    LET parts == splitBlanks(trim(fen))
        position == parts[1]
        activeColor == parts[2]
        castling == parts[3]
        enPassant == parts[4]
        e1 == [e EXCEPT !.board = emptyBoard]
        rows == split(position, "/")
        parsed == parseRows(e1, rows, 0)
        e2 == [ parsed.e EXCEPT
                  !.currentPlayer = IF activeColor = << "w" >> THEN "white" ELSE "black",
                  !.castlingRights = parseCastling(castling),
                  !.enPassantTarget = parseEnPassant(enPassant),
                  !.halfMoveClock = IF Len(parts) >= 5 THEN parseInt(parts[5]) ELSE 0,
                  !.fullMoveNumber = IF Len(parts) >= 6 THEN parseInt(parts[6]) ELSE 1,
                  !.moveHistory = << >>,
                  !.capturedPieces = [white |-> << >>, black |-> << >>],
                  !.positionHistory = << >>,
                  !.gameState = "playing" ]
    IN IF Len(parts) < 4
       THEN [result |-> FALSE, e |-> e]
       ELSE IF Len(rows) # 8
            THEN [result |-> FALSE, e |-> e1]
            ELSE IF ~parsed.ok
                 THEN [result |-> FALSE, e |-> parsed.e]
                 ELSE [ result |-> TRUE,
                        e |-> [e2 EXCEPT !.gameState =
                                  IF isInCheck(e2, e2.currentPlayer)
                                  THEN "check" ELSE "playing"] ]

\* One board row of toFEN, from column col on, with emptyCount empty
\* squares pending.
RECURSIVE rowToFEN(_, _, _)
rowToFEN(r, col, emptyCount) ==
    IF col > 7
    THEN IF emptyCount > 0 THEN numberToString(emptyCount) ELSE << >>
    ELSE IF r[col + 1] # NoPiece
         THEN (IF emptyCount > 0 THEN numberToString(emptyCount) ELSE << >>)
              \o << charOfPiece(r[col + 1]) >> \o rowToFEN(r, col + 1, 0)
         ELSE rowToFEN(r, col + 1, emptyCount + 1)

RECURSIVE boardToFEN(_, _)
boardToFEN(e, row) ==
    rowToFEN(e.board[row + 1], 0, 0)
    \o (IF row < 7 THEN << "/" >> \o boardToFEN(e, row + 1) ELSE << >>)

toFEN(e) ==
    LET castling ==
            (IF e.castlingRights.white.kingSide THEN << "K" >> ELSE << >>)
            \o (IF e.castlingRights.white.queenSide THEN << "Q" >> ELSE << >>)
            \o (IF e.castlingRights.black.kingSide THEN << "k" >> ELSE << >>)
            \o (IF e.castlingRights.black.queenSide THEN << "q" >> ELSE << >>)
    IN boardToFEN(e, 0)
       \o << " ", IF e.currentPlayer = "white" THEN "w" ELSE "b" >>
       \o << " " >> \o (IF castling = << >> THEN << "-" >> ELSE castling)
       \o << " " >>
       \o (IF e.enPassantTarget # NoSquare
           THEN << fileChars[e.enPassantTarget.col + 1] >>
                \o numberToString(8 - e.enPassantTarget.row)
           ELSE << "-" >>)
       \o << " " >> \o numberToString(e.halfMoveClock)
       \o << " " >> \o numberToString(e.fullMoveNumber)

\* ------------------------------------------------------------------------
\* The state machine: one ChessEngine object driven through its public
\* methods.
\* ------------------------------------------------------------------------

VARIABLES
    \* the fields of the ChessEngine object
    board, currentPlayer, moveHistory, capturedPieces, castlingRights,
    enPassantTarget, halfMoveClock, fullMoveNumber, positionHistory, gameState,
    \* a second ChessEngine object: the one the last clone() call returned
    \* or the last copy through FEN filled; NoEngine before any
    cloned,
    \* the last call that changed an object or returned a value other than
    \* null, and whether it returned one (true, for a boolean)
    lastOp, lastOk,
    \* history variable: for each entry of moveHistory, a copy of the object
    \* taken before that makeMove call
    before,
    \* the driver: 0 while only makeMove, undoMove and clone calls were made
    \* since reset(), else the index of the last loadFromFEN input; and the
    \* number of calls made after leaving the scripted line
    root, freeCalls,
    \* the argument of loadFromFEN, as its rows and fields (codec runs)
    fenInput,
    \* the move-sequence count: the frames of the walk, the sequences
    \* counted so far at the current length, the counts of the lengths done
    perftStack, perftNodes, perftCounts,
    \* the fields of the ChessAI object (difficulty, depth, randomFactor), and
    \* what its getBestMove calls on the current position returned
    ai, aiCalls,
    \* the fields of the ChessGame object of game.js that its play mode
    \* reads, and the callbacks it has handed to setTimeout
    chessGame

engineVars ==
    << board, currentPlayer, moveHistory, capturedPieces, castlingRights,
       enPassantTarget, halfMoveClock, fullMoveNumber, positionHistory, gameState >>

gameVars == << cloned, lastOp, lastOk, before, root, freeCalls >>

perftVars == << perftStack, perftNodes, perftCounts >>

aiVars == << ai, aiCalls >>

vars == << engineVars, gameVars, fenInput, perftVars, aiVars, chessGame >>

\* The object as a record.
This ==
    [ board |-> board, currentPlayer |-> currentPlayer, moveHistory |-> moveHistory,
      capturedPieces |-> capturedPieces, castlingRights |-> castlingRights,
      enPassantTarget |-> enPassantTarget, halfMoveClock |-> halfMoveClock,
      fullMoveNumber |-> fullMoveNumber, positionHistory |-> positionHistory,
      gameState |-> gameState ]

\* The next state of the object is e.
Becomes(e) ==
    /\ board' = e.board
    /\ currentPlayer' = e.currentPlayer
    /\ moveHistory' = e.moveHistory
    /\ capturedPieces' = e.capturedPieces
    /\ castlingRights' = e.castlingRights
    /\ enPassantTarget' = e.enPassantTarget
    /\ halfMoveClock' = e.halfMoveClock
    /\ fullMoveNumber' = e.fullMoveNumber
    /\ positionHistory' = e.positionHistory
    /\ gameState' = e.gameState

\* The object is e.
Is(e) ==
    /\ board = e.board
    /\ currentPlayer = e.currentPlayer
    /\ moveHistory = e.moveHistory
    /\ capturedPieces = e.capturedPieces
    /\ castlingRights = e.castlingRights
    /\ enPassantTarget = e.enPassantTarget
    /\ halfMoveClock = e.halfMoveClock
    /\ fullMoveNumber = e.fullMoveNumber
    /\ positionHistory = e.positionHistory
    /\ gameState = e.gameState

\* No second object yet.
NoEngine == [resetEngine EXCEPT !.board = << >>, !.gameState = "none"]

\* No ChessAI object has been made.
NoAI == [difficulty |-> "", depth |-> 0, randomFactor |-> 0]

\* Nothing waits for the promotion modal.
NoPromotion == [from |-> NoSquare, to |-> NoSquare]

\* new ChessGame(): the fields the constructor sets (init() shows the menu),
\* no promotion waiting and no callback handed to setTimeout.
newChessGame ==
    [ gameMode |-> "menu", difficulty |-> "medium", playerColor |-> "white",
      isPlayerTurn |-> TRUE, isThinking |-> FALSE,
      selectedSquare |-> NoSquare, validMoves |-> << >>,
      pendingPromotion |-> NoPromotion, timers |-> << >> ]

\* No loadFromFEN argument drawn.
NoInput == [rows |-> << >>, fields |-> << >>, pad |-> 0]

\* Number of calls explored after the scripted part of a run.
MaxFree == 2

\* Values passed as promotionPiece.
PromotionInputs == {"q", "r", "b", "n", "k", "p"}

\* Scripted games from reset(), each a sequence of <<fromRow, fromCol,
\* toRow, toCol>>: 1.e4 a6 2.e5 d5 (en passant on offer); 1.Nh3 a6 2.Rg1 a5
\* 3.f3 a4 (rook moved, king free to move); 1.e4 e5 2.Nf3 Nf6 3.Bc4 Bc5
\* (castling on offer); 1.h4 g5 2.hxg5 h6 3.gxh6 a6 4.h7 a5 (promotion on
\* offer); 1.e4 f5 2.Qh5+ (check).
Lines ==
    << << >>,
       << <<6, 4, 4, 4>>, <<1, 0, 2, 0>>, <<4, 4, 3, 4>>, <<1, 3, 3, 3>> >>,
       << <<7, 6, 5, 7>>, <<1, 0, 2, 0>>, <<7, 7, 7, 6>>, <<2, 0, 3, 0>>,
          <<6, 5, 5, 5>>, <<3, 0, 4, 0>> >>,
       << <<6, 4, 4, 4>>, <<1, 4, 3, 4>>, <<7, 6, 5, 5>>, <<0, 6, 2, 5>>,
          <<7, 5, 4, 2>>, <<0, 5, 3, 2>> >>,
       << <<6, 7, 4, 7>>, <<1, 6, 3, 6>>, <<4, 7, 3, 6>>, <<1, 7, 2, 7>>,
          <<3, 6, 2, 7>>, <<1, 0, 2, 0>>, <<2, 7, 1, 7>>, <<2, 0, 3, 0>> >>,
       << <<6, 4, 4, 4>>, <<1, 5, 3, 5>>, <<7, 3, 3, 7>> >> >>

\* Inputs of loadFromFEN: a castling position, then one malformed input of
\* each kind (three fields; seven rows; a row of seven squares; an unknown
\* board character).
FENInputs ==
    << << "r", "3", "k", "2", "r", "/", "8", "/", "8", "/", "8", "/", "8", "/", "8", "/",
          "8", "/", "R", "3", "K", "2", "R", " ", "w", " ", "K", "Q", "k", "q", " ", "-",
          " ", "0", " ", "1" >>,
       << "4", "k", "3", "/", "8", "/", "8", "/", "8", "/", "8", "/", "8", "/", "8", "/",
          "4", "K", "3", " ", "w", " ", "-" >>,
       << "4", "k", "3", "/", "8", "/", "8", "/", "8", "/", "8", "/", "8", "/", "4", "K",
          "3", " ", "w", " ", "-", " ", "-", " ", "0", " ", "1" >>,
       << "4", "k", "3", "/", "8", "/", "8", "/", "8", "/", "8", "/", "8", "/", "8", "/",
          "4", "K", "2", " ", "w", " ", "-", " ", "-", " ", "0", " ", "1" >>,
       << "4", "k", "3", "/", "8", "/", "8", "/", "8", "/", "8", "/", "8", "/", "8", "/",
          "4", "X", "3", " ", "w", " ", "-", " ", "-", " ", "0", " ", "1" >> >>


\* moveHistory as the <<fromRow, fromCol, toRow, toCol>> of its entries.
played ==
    [i \in 1..Len(moveHistory) |->
        << moveHistory[i].from.row, moveHistory[i].from.col,
           moveHistory[i].to.row, moveHistory[i].to.col >>]

\* The run is still on a scripted line and m is the line's next move.
ScriptMove(m) ==
    /\ freeCalls = 0
    /\ root = 0
    /\ \E l \in 1..Len(Lines) :
          /\ Len(played) < Len(Lines[l])
          /\ SubSeq(Lines[l], 1, Len(played)) = played
          /\ Lines[l][Len(played) + 1] = m

\* The run is at the end of a scripted line (or at a position just loaded).
AtCheckpoint ==
    /\ freeCalls = 0
    /\ IF root = 0 THEN \E l \in 1..Len(Lines) : Lines[l] = played ELSE moveHistory = << >>

\* A call outside the script may be made.
FreeCall == freeCalls < MaxFree /\ (freeCalls > 0 \/ AtCheckpoint)

\* new ChessEngine(): the constructor calls reset().
Init ==
    /\ Is(resetEngine)
    /\ cloned = NoEngine
    /\ lastOp = "reset"
    /\ lastOk = TRUE
    /\ before = << >>
    /\ root = 0
    /\ freeCalls = 0
    /\ fenInput = NoInput
    /\ perftStack = << >>
    /\ perftNodes = 0
    /\ perftCounts = << >>
    /\ ai = NoAI
    /\ aiCalls = << >>
    /\ chessGame = newChessGame

\* reset(): a new game; the driver drops the second object.
Reset ==
    /\ FreeCall
    /\ Becomes(resetEngine)
    /\ cloned' = NoEngine
    /\ lastOp' = "reset"
    /\ lastOk' = TRUE
    /\ before' = << >>
    /\ root' = 0
    /\ freeCalls' = 0
    /\ UNCHANGED << fenInput, perftVars, aiVars, chessGame >>

\* loadFromFEN(FENInputs[i]).  A successful load starts a new game; a failed
\* one is one more call on the current game.
LoadFromFEN(i) ==
    /\ FreeCall
    /\ \E r \in {loadFromFEN(This, FENInputs[i])} :
          /\ Becomes(r.e)
          /\ lastOp' = "loadFromFEN"
          /\ lastOk' = r.result
          /\ root' = i
          /\ IF r.result
             THEN /\ cloned' = NoEngine
                  /\ before' = << >>
                  /\ freeCalls' = 0
             ELSE /\ freeCalls' = freeCalls + 1
                  /\ UNCHANGED << cloned, before >>
    /\ UNCHANGED << fenInput, perftVars, aiVars, chessGame >>

\* makeMove(fromRow, fromCol, toRow, toCol, promotionPiece).  The scripted
\* move of a line is made with the default promotionPiece; any other call
\* is a free call.  A call that returns null and leaves the object as it
\* was is a stuttering step.
MakeMove(fromRow, fromCol) ==
    /\ IF FreeCall
       THEN TRUE
       ELSE \E toRow, toCol \in 0..7 : ScriptMove(<< fromRow, fromCol, toRow, toCol >>)
    /\ \E valid \in {getValidMoves(This, fromRow, fromCol)} :
       \E unchanged \in {valid.e = This} :
       \E toRow, toCol \in 0..7 :
       \E k \in {IF Len(valid.moves) = 0 THEN 0 ELSE findMove(valid.moves, toRow, toCol)} :
          /\ ~(k = 0 /\ unchanged)
          /\ \E scripted \in {ScriptMove(<< fromRow, fromCol, toRow, toCol >>)} :
                /\ IF FreeCall THEN TRUE ELSE scripted
                /\ \E promotionPiece \in
                       IF k # 0 /\ valid.moves[k].promotion /\ ~scripted
                       THEN PromotionInputs ELSE {"q"} :
                   \E r \in {makeMoveWith(This, valid, fromRow, fromCol,
                                          toRow, toCol, promotionPiece)} :
                      /\ Becomes(r.e)
                      /\ lastOp' = "makeMove"
                      /\ lastOk' = (r.result # NullRecord)
                      /\ before' = IF r.result # NullRecord
                                   THEN Append(before, clone(This))
                                   ELSE before
                      /\ freeCalls' = IF scripted THEN freeCalls ELSE freeCalls + 1
    /\ UNCHANGED << cloned, root, fenInput, perftVars, aiVars, chessGame >>

\* undoMove().  With an empty moveHistory it returns null: a stuttering step
\* when the object is left as it was.
UndoMove ==
    /\ FreeCall
    /\ \E r \in {undoMove(This)} :
          /\ ~(r.result = NullRecord /\ r.e = This)
          /\ Becomes(r.e)
          /\ lastOp' = "undoMove"
          /\ lastOk' = (r.result # NullRecord)
          /\ before' = IF r.result # NullRecord THEN pop(before) ELSE before
          /\ freeCalls' = freeCalls + 1
    /\ UNCHANGED << cloned, root, fenInput, perftVars, aiVars, chessGame >>

\* clone(): the driver keeps one clone.
Clone ==
    /\ FreeCall
    /\ cloned = NoEngine
    /\ cloned' = clone(This)
    /\ lastOp' = "clone"
    /\ lastOk' = TRUE
    /\ freeCalls' = freeCalls + 1
    /\ UNCHANGED << engineVars, before, root, fenInput, perftVars, aiVars, chessGame >>

\* other.loadFromFEN(this.toFEN()), where other is the second object, or a
\* new ChessEngine() when there is none.
CopyByFEN ==
    /\ FreeCall
    /\ \E r \in {loadFromFEN(IF cloned = NoEngine THEN resetEngine ELSE cloned,
                            toFEN(This))} :
          /\ cloned' = r.e
          /\ lastOp' = "copyByFEN"
          /\ lastOk' = r.result
    /\ freeCalls' = freeCalls + 1
    /\ UNCHANGED << engineVars, before, root, fenInput, perftVars, aiVars, chessGame >>

Next ==
    \/ Reset
    \/ \E i \in 1..Len(FENInputs) : LoadFromFEN(i)
    \/ \E fromRow, fromCol \in 0..7 : MakeMove(fromRow, fromCol)
    \/ UndoMove
    \/ Clone
    \/ CopyByFEN

Spec == Init /\ [][Next]_vars

\* ------------------------------------------------------------------------
\* Codec runs: one loadFromFEN call on a new ChessEngine, the argument
\* drawn from a set of well-formed and malformed strings.
\* ------------------------------------------------------------------------

\* Board rows the inputs are made of: 8 squares ("8", "4k3", "rnbqkbnr",
\* "PPPPPPPP", "44"), 7 squares ("7", "4K2"), 9 squares ("45", "8p", "p8"),
\* an unknown character ("9", "08", "4X3") and the empty row.
FENRowInputs ==
    << << "8" >>,
       << "4", "k", "3" >>,
       << "r", "n", "b", "q", "k", "b", "n", "r" >>,
       << "P", "P", "P", "P", "P", "P", "P", "P" >>,
       << "4", "4" >>,
       << "7" >>,
       << "4", "K", "2" >>,
       << "4", "5" >>,
       << "8", "p" >>,
       << "p", "8" >>,
       << "9" >>,
       << "0", "8" >>,
       << "4", "X", "3" >>,
       << >> >>

\* The board the inputs vary: "4k3/8/8/8/8/8/8/4K3".
FENBoardInput ==
    << << "4", "k", "3" >>, << "8" >>, << "8" >>, << "8" >>,
       << "8" >>, << "8" >>, << "8" >>, << "4", "K", "3" >> >>

\* The boards of the inputs: one row of FENBoardInput replaced, its last
\* row dropped, or a row added.
FENBoardInputs ==
    { [FENBoardInput EXCEPT ![i] = FENRowInputs[v]] :
        i \in 1..8, v \in 1..Len(FENRowInputs) }
    \cup { SubSeq(FENBoardInput, 1, 7), Append(FENBoardInput, << "8" >>) }

\* The fields after the board: "w - - 0 1", "b KQkq e3 12 34", "w - -",
\* "w -", "w", none.
FENFieldInputs ==
    { << << "w" >>, << "-" >>, << "-" >>, << "0" >>, << "1" >> >>,
      << << "b" >>, << "K", "Q", "k", "q" >>, << "e", "3" >>, << "1", "2" >>, << "3", "4" >> >>,
      << << "w" >>, << "-" >>, << "-" >> >>,
      << << "w" >>, << "-" >> >>,
      << << "w" >> >>,
      << >> }

\* The pieces of s, each followed by sep but the last.
RECURSIVE join(_, _)
join(s, sep) ==
    IF Len(s) = 0
    THEN << >>
    ELSE IF Len(s) = 1 THEN s[1] ELSE s[1] \o sep \o join(Tail(s), sep)

\* The string an input stands for: rows joined by "/", then the fields,
\* separated by one blank, or by two with a blank at both ends (pad 1).
fenString(input) ==
    LET blanks == IF input.pad = 1 THEN << " ", " " >> ELSE << " " >>
        text == join(<< join(input.rows, << "/" >>) >> \o input.fields, blanks)
    IN IF input.pad = 1 THEN << " " >> \o text \o << " " >> ELSE text

InitFEN ==
    /\ Is(resetEngine)
    /\ cloned = NoEngine
    /\ lastOp = "reset"
    /\ lastOk = TRUE
    /\ before = << >>
    /\ root = 0
    /\ freeCalls = 0
    /\ fenInput \in [rows : FENBoardInputs, fields : FENFieldInputs, pad : {0, 1}]
    /\ perftStack = << >>
    /\ perftNodes = 0
    /\ perftCounts = << >>
    /\ ai = NoAI
    /\ aiCalls = << >>
    /\ chessGame = newChessGame

\* loadFromFEN(fenString(fenInput)) on the new object.
LoadInput ==
    /\ lastOp = "reset"
    /\ \E r \in {loadFromFEN(This, fenString(fenInput))} :
          /\ Becomes(r.e)
          /\ lastOp' = "loadFromFEN"
          /\ lastOk' = r.result
    /\ UNCHANGED << cloned, before, root, freeCalls, fenInput, perftVars, aiVars, chessGame >>

NextFEN == LoadInput

SpecFEN == InitFEN /\ [][NextFEN]_vars

\* ------------------------------------------------------------------------
\* Counting runs: the legal move sequences from the starting position are
\* walked depth first, length 1 first, then 2, up to MaxPly; each step of a
\* sequence is an entry of getAllLegalMoves applied with makeMove on a copy
\* of the object, and the sequences of the full length are counted from
\* getAllLegalMoves at their last step.
\* ------------------------------------------------------------------------

\* The longest sequences counted.
MaxPly == 4

\* A frame of the walk: the object, its legal moves and the next to take.
perftFrame(e) ==
    LET frame(all) == [e |-> all.e, moves |-> all.moves, i |-> 1]
    IN frame(getAllLegalMoves(e))

\* The length being counted.
perftPly == Len(perftCounts) + 1

InitPerft ==
    /\ Is(resetEngine)
    /\ cloned = NoEngine
    /\ lastOp = "reset"
    /\ lastOk = TRUE
    /\ before = << >>
    /\ root = 0
    /\ freeCalls = 0
    /\ fenInput = NoInput
    /\ perftStack = << perftFrame(resetEngine) >>
    /\ perftNodes = 0
    /\ perftCounts = << >>
    /\ ai = NoAI
    /\ aiCalls = << >>
    /\ chessGame = newChessGame

\* The top frame is one move short of the length: its legal moves are
\* counted.
PerftCount ==
    /\ Len(perftStack) > 0
    /\ Len(perftStack) = perftPly
    /\ perftNodes' = perftNodes + Len(perftStack[Len(perftStack)].moves)
    /\ perftStack' = pop(perftStack)
    /\ UNCHANGED << engineVars, gameVars, fenInput, aiVars, chessGame, perftCounts >>

\* The next move of the top frame is made on a copy of its object.
PerftDescend ==
    /\ Len(perftStack) > 0
    /\ Len(perftStack) < perftPly
    /\ \E top \in {perftStack[Len(perftStack)]} :
          /\ top.i <= Len(top.moves)
          /\ \E m \in {top.moves[top.i]} :
             \E r \in {makeMove(top.e, m.from.row, m.from.col, m.to.row, m.to.col, "q")} :
                perftStack' = Append([perftStack EXCEPT ![Len(perftStack)].i = @ + 1],
                                     perftFrame(r.e))
    /\ UNCHANGED << engineVars, gameVars, fenInput, aiVars, chessGame, perftNodes, perftCounts >>

\* The moves of the top frame are exhausted.
PerftBacktrack ==
    /\ Len(perftStack) > 0
    /\ Len(perftStack) < perftPly
    /\ perftStack[Len(perftStack)].i > Len(perftStack[Len(perftStack)].moves)
    /\ perftStack' = pop(perftStack)
    /\ UNCHANGED << engineVars, gameVars, fenInput, aiVars, chessGame, perftNodes, perftCounts >>

\* The walk of one length is over: its count is recorded and the next
\* length starts.
PerftNextPly ==
    /\ Len(perftStack) = 0
    /\ perftPly <= MaxPly
    /\ perftCounts' = Append(perftCounts, perftNodes)
    /\ perftNodes' = 0
    /\ perftStack' = IF perftPly < MaxPly THEN << perftFrame(resetEngine) >> ELSE << >>
    /\ UNCHANGED << engineVars, gameVars, fenInput, aiVars, chessGame >>

NextPerft ==
    \/ PerftCount
    \/ PerftDescend
    \/ PerftBacktrack
    \/ PerftNextPly

SpecPerft == InitPerft /\ [][NextPerft]_vars

\* ------------------------------------------------------------------------
\* Properties of the game runs (Spec).
\* ------------------------------------------------------------------------

\* C1: undoMove is an exact left inverse of makeMove on toFEN: when a
\* successful makeMove is followed at once by undoMove, toFEN() after the
\* undo equals toFEN() before the move (board, side to move, castling
\* rights, en-passant target, halfMoveClock and fullMoveNumber).
C1_UndoRestoresFEN ==
    [][ (lastOp = "makeMove" /\ lastOk /\ lastOp' = "undoMove" /\ lastOk')
        => toFEN(This') = toFEN(before[Len(before)]) ]_vars

\* The calls makeMove rejects by the claim's three cases: the from square
\* is empty, holds a piece of the side not to move, or (toRow, toCol) is not
\* the target of a legal move of the piece at from.
Rejected(e, legalMoves, fromRow, fromCol, toRow, toCol) ==
    \/ getPiece(e, fromRow, fromCol) = NoPiece
    \/ getPiece(e, fromRow, fromCol).color # e.currentPlayer
    \/ \A i \in 1..Len(legalMoves) : ~(legalMoves[i].row = toRow /\ legalMoves[i].col = toCol)

\* C2: a makeMove call in one of the three rejected cases returns null and
\* changes nothing of the object, whatever promotionType is passed (stated
\* of the calls the driver makes: every argument, wherever it may call).
C2_RejectedMoveChangesNothing ==
    FreeCall =>
        \A fromRow, fromCol \in 0..7 :
            LET valid == getValidMoves(This, fromRow, fromCol)
            IN \A toRow, toCol \in 0..7 :
                  Rejected(This, valid.moves, fromRow, fromCol, toRow, toCol)
                  => \A promotionPiece \in PromotionInputs :
                        LET r == makeMoveWith(This, valid, fromRow, fromCol,
                                              toRow, toCol, promotionPiece)
                        IN r.result = NullRecord /\ r.e = This

\* A position with a rejected call on a piece of the side to move towards
\* one of its pseudo-legal targets: the call probes moves on the board and
\* returns null (the side to move is in check).
C2_Witness ==
    /\ FreeCall
    /\ lastOp = "makeMove"
    /\ gameState = "check"
    /\ \E fromRow, fromCol \in 0..7 :
          LET piece == getPiece(This, fromRow, fromCol)
          IN /\ piece # NoPiece
             /\ piece.color = currentPlayer
             /\ \E toRow, toCol \in 0..7 :
                   /\ findMove(getPseudoLegalMoves(This, fromRow, fromCol, piece),
                               toRow, toCol) # 0
                   /\ makeMove(This, fromRow, fromCol, toRow, toCol, "q").result = NullRecord

\* The king of color is not attacked once the board part of makeMove has
\* applied the move (en-passant pawn removed, castling rook relocated).
kingSafeAfterMove(e, fromRow, fromCol, piece, move) ==
    ~isInCheck(applyToBoard(e, fromRow, fromCol, move.row, move.col, piece, move, "q"),
               piece.color)

\* C3: for every piece of the side to move, getValidMoves returns exactly
\* the pseudo-legal moves after which the mover's king is not attacked, and
\* getAllLegalMoves returns exactly these moves of all the pieces.
C3_LegalIffKingSafe ==
    LET own == squaresOf(This, currentPlayer)
        all == getAllLegalMoves(This).moves
    IN /\ \A j \in 1..Len(all) :
             \E k \in 1..Len(own) : all[j].from = Square(own[k] \div 8, own[k] % 8)
       /\ \A k \in 1..Len(own) :
             LET row == own[k] \div 8
                 col == own[k] % 8
                 piece == pieceAt(This, own[k])
                 safeMoves ==
                     SelectSeq(getPseudoLegalMoves(This, row, col, piece),
                               LAMBDA move : kingSafeAfterMove(This, row, col, piece, move))
                 listed == SelectSeq(all, LAMBDA entry : entry.from = Square(row, col))
             IN /\ getValidMoves(This, row, col).moves = safeMoves
                /\ Len(listed) = Len(safeMoves)
                /\ \A j \in 1..Len(listed) : listed[j].move = safeMoves[j]

\* A position in check where some pseudo-legal move is returned and some
\* other is not.
C3_Witness ==
    /\ root = 0
    /\ lastOp = "makeMove"
    /\ gameState = "check"
    /\ \E idx \in 0..63 :
          LET piece == pieceAt(This, idx)
              valid == getValidMoves(This, idx \div 8, idx % 8).moves
          IN /\ piece # NoPiece
             /\ piece.color = currentPlayer
             /\ Len(valid) > 0
             /\ Len(valid) < Len(getPseudoLegalMoves(This, idx \div 8, idx % 8, piece))

\* The squares that hold a king of color.
kingsOf(e, color) == { idx \in 0..63 : pieceAt(e, idx) = Piece("k", color) }

\* C4: after makeMove (with any promotionType) and undoMove calls from
\* reset(), the board holds exactly one white king and one black king.
C4_OneKingPerColor ==
    root = 0 => /\ Cardinality(kingsOf(This, "white")) = 1
                /\ Cardinality(kingsOf(This, "black")) = 1

\* C5: a castling-right flag goes from false to true only in the undoMove
\* that reverses the makeMove that cleared it, i.e. the flag was true
\* before the move that is undone.
C5_CastlingRightRestoredOnlyByItsUndo ==
    [][ \A color \in {"white", "black"}, side \in {"kingSide", "queenSide"} :
          ( /\ lastOp' \in {"makeMove", "undoMove"}
            /\ ~castlingRights[color][side]
            /\ castlingRights'[color][side] )
          => ( /\ lastOp' = "undoMove"
               /\ Len(before) > 0
               /\ before[Len(before)].castlingRights[color][side] ) ]_vars

\* C6: positionHistory and moveHistory have the same length, in the object
\* and in the object clone() returned.
C6_HistoriesSameLength ==
    /\ Len(positionHistory) = Len(moveHistory)
    /\ cloned # NoEngine => Len(cloned.positionHistory) = Len(cloned.moveHistory)

\* A move has been undone with moves left in the history, and a clone made.
C6_Witness ==
    /\ lastOp = "undoMove"
    /\ lastOk
    /\ Len(moveHistory) > 0
    /\ cloned # NoEngine

\* C8: a loadFromFEN call that returns false leaves every field of the
\* object as it was.
C8_FailedLoadChangesNothing ==
    [][ (lastOp' = "loadFromFEN" /\ ~lastOk') => UNCHANGED engineVars ]_vars

\* C10: loading toFEN() of a position into another engine succeeds and
\* gives the same board, side to move, castling rights, en-passant target,
\* halfMoveClock and fullMoveNumber, hence the same toFEN().
C10_FENRoundTrip ==
    lastOp = "copyByFEN"
    => /\ lastOk
       /\ cloned.board = board
       /\ cloned.currentPlayer = currentPlayer
       /\ cloned.castlingRights = castlingRights
       /\ cloned.enPassantTarget = enPassantTarget
       /\ cloned.halfMoveClock = halfMoveClock
       /\ cloned.fullMoveNumber = fullMoveNumber
       /\ toFEN(cloned) = toFEN(This)

\* A position reached by moves from reset(), with an en-passant target and
\* a castling right lost, has been copied through FEN.
C10_Witness ==
    /\ lastOp = "copyByFEN"
    /\ lastOk
    /\ root = 0
    /\ enPassantTarget # NoSquare
    /\ Len(moveHistory) > 0

\* ------------------------------------------------------------------------
\* Properties of the counting runs (SpecPerft) and of the codec runs
\* (SpecFEN).
\* ------------------------------------------------------------------------

\* C7: from the starting position there are 20 legal move sequences of
\* length 1, 400 of length 2, 8,902 of length 3 and 197,281 of length 4.
C7_PerftCounts ==
    /\ Len(perftCounts) >= 1 => perftCounts[1] = 20
    /\ Len(perftCounts) >= 2 => perftCounts[2] = 400
    /\ Len(perftCounts) >= 3 => perftCounts[3] = 8902
    /\ Len(perftCounts) >= 4 => perftCounts[4] = 197281

\* The four lengths have been counted.
C7_Witness ==
    /\ Len(perftCounts) >= 4
    /\ perftCounts[4] = 197281

\* The characters of a board row: the digits 1-8 and the 12 piece letters.
fenDigits == { "1", "2", "3", "4", "5", "6", "7", "8" }

fenLetters == { "r", "n", "b", "q", "k", "p", "R", "N", "B", "Q", "K", "P" }

\* The squares a row stands for: a piece letter is one square, a digit as
\* many as its value.
RECURSIVE fenSquares(_)
fenSquares(row) ==
    IF Len(row) = 0
    THEN 0
    ELSE (IF row[1] \in fenLetters
          THEN 1
          ELSE IF row[1] \in fenDigits
               THEN CHOOSE n \in 1..8 : digitChars[n + 1] = row[1]
               ELSE 0)
         + fenSquares(Tail(row))

\* The ways an input is malformed.
TooFewFields(input) == 1 + Len(input.fields) < 4

WrongRowCount(input) == Len(input.rows) # 8

WrongSquareCount(input) ==
    \E i \in 1..Len(input.rows) : fenSquares(input.rows[i]) # 8

UnknownCharacter(input) ==
    \E i \in 1..Len(input.rows) :
        \E j \in 1..Len(input.rows[i]) :
            input.rows[i][j] \notin (fenDigits \cup fenLetters)

\* C9: loadFromFEN returns false for an input with fewer than 4 fields, a
\* board of other than 8 rows, a row of other than 8 squares, or a board
\* character that is neither a digit 1-8 nor a piece letter.
C9_MalformedFENRejected ==
    ( /\ lastOp = "loadFromFEN"
      /\ \/ TooFewFields(fenInput)
         \/ WrongRowCount(fenInput)
         \/ WrongSquareCount(fenInput)
         \/ UnknownCharacter(fenInput) )
    => ~lastOk

\* An input of six fields and eight rows of known characters, one row one
\* square short, has been rejected.
C9_Witness ==
    /\ lastOp = "loadFromFEN"
    /\ ~lastOk
    /\ ~TooFewFields(fenInput)
    /\ ~WrongRowCount(fenInput)
    /\ ~UnknownCharacter(fenInput)
    /\ WrongSquareCount(fenInput)

\* ------------------------------------------------------------------------
\* Endgame runs: a position is loaded with loadFromFEN on a new ChessEngine,
\* its scripted line is played, and then up to MaxEnd calls of makeMove and
\* undoMove are explored.  root is the index of the loaded input.
\* ------------------------------------------------------------------------

\* The positions and their lines:
\*   1  "7k/8/6K1/8/8/8/8/R4Q2 w - - 99 80": Ra8 mates, Qf7 stalemates, and
\*      either move is the 100th half-move without pawn move or capture;
\*   2  "4k3/8/8/8/8/8/8/R3K3 w - - 49 60": the next quiet move is the 50th;
\*   3  "4k3/8/8/8/8/8/8/R3K3 w - - 0 1" followed by Kd1 Kd8 Ke1 Ke8 Kd1 Kd8
\*      Ke1 Ke8: the loaded position stands for the third time;
\*   4  "rnb1kbnr/pppp1ppp/8/4p3/6Pq/5P2/PPPPP2P/RNBQKBNR w KQkq - 1 3":
\*      white is mated;
\*   5  "r3k2r/8/8/8/3pP3/8/8/R3K2R b KQkq e3 0 1": both sides may castle
\*      and black may capture en passant;
\*   6  "r3k2r/8/8/7r/R7/8/8/R3K2R w KQkq - 0 1": both sides may castle and
\*      each has a third rook, on a4 and on h5.
EndInputs ==
    << [ fen |-> << "7", "k", "/", "8", "/", "6", "K", "1", "/", "8", "/", "8", "/",
                    "8", "/", "8", "/", "R", "4", "Q", "2", " ", "w", " ", "-", " ",
                    "-", " ", "9", "9", " ", "8", "0" >>,
         line |-> << >> ],
       [ fen |-> << "4", "k", "3", "/", "8", "/", "8", "/", "8", "/", "8", "/", "8", "/",
                    "8", "/", "R", "3", "K", "3", " ", "w", " ", "-", " ", "-", " ",
                    "4", "9", " ", "6", "0" >>,
         line |-> << >> ],
       [ fen |-> << "4", "k", "3", "/", "8", "/", "8", "/", "8", "/", "8", "/", "8", "/",
                    "8", "/", "R", "3", "K", "3", " ", "w", " ", "-", " ", "-", " ",
                    "0", " ", "1" >>,
         line |-> << <<7, 4, 7, 3>>, <<0, 4, 0, 3>>, <<7, 3, 7, 4>>, <<0, 3, 0, 4>>,
                     <<7, 4, 7, 3>>, <<0, 4, 0, 3>>, <<7, 3, 7, 4>>, <<0, 3, 0, 4>> >> ],
       [ fen |-> << "r", "n", "b", "1", "k", "b", "n", "r", "/", "p", "p", "p", "p", "1",
                    "p", "p", "p", "/", "8", "/", "4", "p", "3", "/", "6", "P", "q", "/",
                    "5", "P", "2", "/", "P", "P", "P", "P", "P", "2", "P", "/", "R", "N",
                    "B", "Q", "K", "B", "N", "R", " ", "w", " ", "K", "Q", "k", "q", " ",
                    "-", " ", "1", " ", "3" >>,
         line |-> << >> ],
       [ fen |-> << "r", "3", "k", "2", "r", "/", "8", "/", "8", "/", "8", "/", "3", "p", "P", "3", "/", "8", "/", "8", "/", "R", "3", "K", "2", "R", " ", "b", " ", "K", "Q", "k", "q", " ", "e", "3", " ", "0", " ", "1" >>,
         line |-> << >> ],
       [ fen |-> << "r", "3", "k", "2", "r", "/", "8", "/", "8", "/", "7", "r", "/", "R", "7", "/", "8", "/", "8", "/", "R", "3", "K", "2", "R", " ", "w", " ", "K", "Q", "k", "q", " ", "-", " ", "0", " ", "1" >>,
         line |-> << >> ] >>

\* Number of calls explored after the line of an endgame run.
MaxEnd == 2

\* new ChessEngine().
InitEnd == Init

\* loadFromFEN(EndInputs[i].fen) on the new object.
EndLoad(i) ==
    /\ lastOp = "reset"
    /\ root = 0
    /\ \E r \in {loadFromFEN(This, EndInputs[i].fen)} :
          /\ Becomes(r.e)
          /\ lastOp' = "loadFromFEN"
          /\ lastOk' = r.result
    /\ root' = i
    /\ UNCHANGED << cloned, before, freeCalls, fenInput, perftVars, aiVars, chessGame >>

\* The next move of the line is made.
EndScript ==
    /\ root # 0
    /\ lastOk
    /\ freeCalls = 0
    /\ Len(moveHistory) < Len(EndInputs[root].line)
    /\ \E m \in {EndInputs[root].line[Len(moveHistory) + 1]} :
       \E r \in {makeMove(This, m[1], m[2], m[3], m[4], "q")} :
          /\ Becomes(r.e)
          /\ lastOp' = "makeMove"
          /\ lastOk' = (r.result # NullRecord)
          /\ before' = Append(before, clone(This))
    /\ UNCHANGED << cloned, root, freeCalls, fenInput, perftVars, aiVars, chessGame >>

\* The line has been played and a further call may be made.
EndCall ==
    /\ root # 0
    /\ freeCalls < MaxEnd
    /\ (freeCalls > 0 \/ Len(moveHistory) = Len(EndInputs[root].line))

\* makeMove(fromRow, fromCol, toRow, toCol, promotionPiece) with a legal
\* move; a rejected call is a stuttering step (see MakeMove).
EndMove(fromRow, fromCol) ==
    /\ EndCall
    /\ \E valid \in {getValidMoves(This, fromRow, fromCol)} :
       \E k \in 1..Len(valid.moves) :
       \E promotionPiece \in IF valid.moves[k].promotion THEN PromotionInputs ELSE {"q"} :
       \E r \in {makeMoveWith(This, valid, fromRow, fromCol,
                              valid.moves[k].row, valid.moves[k].col, promotionPiece)} :
          /\ Becomes(r.e)
          /\ lastOp' = "makeMove"
          /\ lastOk' = (r.result # NullRecord)
          /\ before' = Append(before, clone(This))
    /\ freeCalls' = freeCalls + 1
    /\ UNCHANGED << cloned, root, fenInput, perftVars, aiVars, chessGame >>

\* undoMove() with a move to undo.
EndUndo ==
    /\ EndCall
    /\ Len(moveHistory) > 0
    /\ \E r \in {undoMove(This)} :
          /\ Becomes(r.e)
          /\ lastOp' = "undoMove"
          /\ lastOk' = (r.result # NullRecord)
    /\ before' = pop(before)
    /\ freeCalls' = freeCalls + 1
    /\ UNCHANGED << cloned, root, fenInput, perftVars, aiVars, chessGame >>

NextEnd ==
    \/ \E i \in 1..Len(EndInputs) : EndLoad(i)
    \/ EndScript
    \/ \E fromRow, fromCol \in 0..7 : EndMove(fromRow, fromCol)
    \/ EndUndo

SpecEnd == InitEnd /\ [][NextEnd]_vars

\* ------------------------------------------------------------------------
\* Game state after a move
\* ------------------------------------------------------------------------

\* The side to move of e has no legal move: getAllLegalMoves() is empty.
noLegalMove(e) == getAllLegalMoves(e).moves = << >>

\* C11: after every successful makeMove, gameState is "checkmate" exactly
\* when the new side to move is in check and has no legal move, whatever the
\* half-move clock, the repetitions and the material; in that state
\* getAllLegalMoves() is empty and the returned move record has its check
\* and checkmate flags set.
C11_CheckmateIffMated ==
    (lastOp = "makeMove" /\ lastOk) =>
        LET mated == isInCheck(This, currentPlayer) /\ noLegalMove(This)
            moveRecord == moveHistory[Len(moveHistory)]
        IN /\ gameState = "checkmate" <=> mated
           /\ gameState = "checkmate" =>
                 /\ getAllLegalMoves(This).moves = << >>
                 /\ moveRecord.check
                 /\ moveRecord.checkmate

\* A move mates on the 100th half-move without pawn move or capture.
C11_Witness ==
    /\ lastOp = "makeMove"
    /\ lastOk
    /\ gameState = "checkmate"
    /\ halfMoveClock >= 100
    /\ moveHistory[Len(moveHistory)].checkmate

\* C12: after loadFromFEN of a position whose side to move is in check and
\* has no legal move, gameState is "checkmate" and getAllLegalMoves() is
\* empty.
C12_LoadedMateIsCheckmate ==
    (lastOp = "loadFromFEN" /\ lastOk /\ isInCheck(This, currentPlayer) /\ noLegalMove(This)) =>
        /\ gameState = "checkmate"
        /\ getAllLegalMoves(This).moves = << >>

\* C13: after every successful makeMove, gameState is "stalemate" exactly
\* when the new side to move is not in check and none of its pieces has a
\* legal move, whatever the half-move clock, the repetitions and the
\* material.
C13_StalemateIffNoMoveNoCheck ==
    (lastOp = "makeMove" /\ lastOk) =>
        LET own == squaresOf(This, currentPlayer)
            stuck == \A i \in 1..Len(own) :
                        getValidMoves(This, own[i] \div 8, own[i] % 8).moves = << >>
        IN gameState = "stalemate" <=> (~isInCheck(This, currentPlayer) /\ stuck)

\* A move stalemates on the 100th half-move without pawn move or capture.
C13_Witness ==
    /\ lastOp = "makeMove"
    /\ lastOk
    /\ gameState = "stalemate"
    /\ halfMoveClock >= 100
    /\ ~isInCheck(This, currentPlayer)

\* The move of record m was neither a pawn move nor a capture.
quiet(m) == m.piece.type # "p" /\ m.captured = NoPiece

\* Number of consecutive half-moves without pawn move or capture up to the
\* current position: the moves made since the last pawn move or capture,
\* added to the clock the game started with when there is none.
quietPlies ==
    LET loud == { i \in 1..Len(moveHistory) : ~quiet(moveHistory[i]) }
        last == IF loud = {} THEN 0 ELSE CHOOSE i \in loud : \A j \in loud : j <= i
    IN IF Len(moveHistory) = 0
       THEN halfMoveClock
       ELSE IF last = 0
            THEN before[1].halfMoveClock + Len(moveHistory)
            ELSE Len(moveHistory) - last

occurrences ==
    Cardinality({ i \in 1..Len(before) :
                    /\ before[i].board = board
                    /\ before[i].currentPlayer = currentPlayer
                    /\ before[i].castlingRights = castlingRights
                    /\ before[i].enPassantTarget = enPassantTarget }) + 1

\* C15: a successful makeMove that produces a position standing for the
\* third time in the game, the position before the first move counted,
\* sets gameState to "draw", provided the side to move is not in check and
\* has a legal move.
C15_ThirdOccurrenceDraws ==
    (/\ lastOp = "makeMove"
     /\ lastOk
     /\ occurrences >= 3
     /\ ~isInCheck(This, currentPlayer)
     /\ ~noLegalMove(This)) =>
        gameState = "draw"

\* ------------------------------------------------------------------------
\* Clone runs: two objects, the source (the engine variables) and its clone
\* (cloned), each taking makeMove and undoMove calls.  JavaScript objects
\* are held by reference: a write made in place into an array or object
\* that both engines reach is seen by both.
\* ------------------------------------------------------------------------

\* For each field of the engine that holds an array or object, the number
\* of nesting levels clone() allocates anew: board.map(row => row.map(piece
\* => {...piece})) makes a new outer array, new rows and new pieces;
\* JSON.parse(JSON.stringify(castlingRights)) a new object with new
\* per-colour objects; {...enPassantTarget} a new square; the histories are
\* new arrays and capturedPieces a new object with new lists.
cloneFreshLevelsRowsShared ==
    [ board |-> 1, castlingRights |-> 2, enPassantTarget |-> 1,
      moveHistory |-> 1, positionHistory |-> 1, capturedPieces |-> 2 ]

cloneFreshLevels ==
    [ board |-> 3, castlingRights |-> 2, enPassantTarget |-> 1,
      moveHistory |-> 1, positionHistory |-> 1, capturedPieces |-> 2 ]

\* For each such field, the nesting level of the array or object that
\* makeMove and undoMove write in place: this.board[row][col] = piece writes
\* a row; this.castlingRights[color].kingSide = ... a per-colour object;
\* this.capturedPieces[color].push(...) a list; moveHistory.push/pop and
\* positionHistory.push/pop the array itself; enPassantTarget is only ever
\* assigned a new object or null (level 0: the engine's own field).
writeLevels ==
    [ board |-> 2, castlingRights |-> 2, enPassantTarget |-> 0,
      moveHistory |-> 1, positionHistory |-> 1, capturedPieces |-> 2 ]

\* The fields whose in-place writes reach an array or object that the
\* source and its clone both hold.
entangled == { f \in DOMAIN writeLevels : writeLevels[f] > cloneFreshLevels[f] }

\* The object `other` after a call that left the object `actor` as given:
\* the entangled fields show the actor's writes.
writeThrough(other, actor) ==
    [ f \in DOMAIN other |-> IF f \in entangled THEN actor[f] ELSE other[f] ]

\* Number of calls of a clone run.
MaxClone == 3

\* new ChessEngine().
InitClone == Init

\* loadFromFEN(FENInputs[1]) on the new object: both sides may castle.
CloneLoad ==
    /\ lastOp = "reset"
    /\ \E r \in {loadFromFEN(This, FENInputs[1])} :
          /\ Becomes(r.e)
          /\ lastOk' = r.result
    /\ lastOp' = "loadFromFEN"
    /\ root' = 1
    /\ UNCHANGED << cloned, before, freeCalls, fenInput, perftVars, aiVars, chessGame >>

\* clone = source.clone().
CloneMake ==
    /\ freeCalls < MaxClone
    /\ cloned = NoEngine
    /\ cloned' = clone(This)
    /\ lastOp' = "clone"
    /\ lastOk' = TRUE
    /\ freeCalls' = freeCalls + 1
    /\ UNCHANGED << engineVars, before, root, fenInput, perftVars, aiVars, chessGame >>

\* source.makeMove(...) with a legal move.
SourceMove(fromRow, fromCol) ==
    /\ freeCalls < MaxClone
    /\ \E valid \in {getValidMoves(This, fromRow, fromCol)} :
       \E k \in 1..Len(valid.moves) :
       \E r \in {makeMoveWith(This, valid, fromRow, fromCol,
                              valid.moves[k].row, valid.moves[k].col, "q")} :
          /\ Becomes(r.e)
          /\ cloned' = IF cloned = NoEngine THEN cloned ELSE writeThrough(cloned, r.e)
          /\ lastOk' = (r.result # NullRecord)
    /\ lastOp' = "sourceMove"
    /\ freeCalls' = freeCalls + 1
    /\ UNCHANGED << before, root, fenInput, perftVars, aiVars, chessGame >>

\* clone.makeMove(...) with a legal move.
CloneMove(fromRow, fromCol) ==
    /\ freeCalls < MaxClone
    /\ cloned # NoEngine
    /\ \E valid \in {getValidMoves(cloned, fromRow, fromCol)} :
       \E k \in 1..Len(valid.moves) :
       \E r \in {makeMoveWith(cloned, valid, fromRow, fromCol,
                              valid.moves[k].row, valid.moves[k].col, "q")} :
          /\ cloned' = r.e
          /\ Becomes(writeThrough(This, r.e))
          /\ lastOk' = (r.result # NullRecord)
    /\ lastOp' = "cloneMove"
    /\ freeCalls' = freeCalls + 1
    /\ UNCHANGED << before, root, fenInput, perftVars, aiVars, chessGame >>

\* source.undoMove() with a move to undo.
SourceUndo ==
    /\ freeCalls < MaxClone
    /\ Len(moveHistory) > 0
    /\ \E r \in {undoMove(This)} :
          /\ Becomes(r.e)
          /\ cloned' = IF cloned = NoEngine THEN cloned ELSE writeThrough(cloned, r.e)
          /\ lastOk' = (r.result # NullRecord)
    /\ lastOp' = "sourceUndo"
    /\ freeCalls' = freeCalls + 1
    /\ UNCHANGED << before, root, fenInput, perftVars, aiVars, chessGame >>

\* clone.undoMove() with a move to undo.
CloneUndo ==
    /\ freeCalls < MaxClone
    /\ cloned # NoEngine
    /\ Len(cloned.moveHistory) > 0
    /\ \E r \in {undoMove(cloned)} :
          /\ cloned' = r.e
          /\ Becomes(writeThrough(This, r.e))
          /\ lastOk' = (r.result # NullRecord)
    /\ lastOp' = "cloneUndo"
    /\ freeCalls' = freeCalls + 1
    /\ UNCHANGED << before, root, fenInput, perftVars, aiVars, chessGame >>

NextClone ==
    \/ CloneLoad
    \/ CloneMake
    \/ \E fromRow, fromCol \in 0..7 : SourceMove(fromRow, fromCol)
    \/ \E fromRow, fromCol \in 0..7 : CloneMove(fromRow, fromCol)
    \/ SourceUndo
    \/ CloneUndo

SpecClone == InitClone /\ [][NextClone]_vars

\* C16: a makeMove or undoMove on the clone leaves every field of the
\* source unchanged, a makeMove or undoMove on the source leaves every field
\* of the clone unchanged, and right after clone() the clone has the
\* source's board, side to move, castling rights, en-passant target, clocks
\* and gameState.
C16_CloneSharesNothing ==
    [][ /\ lastOp' \in {"cloneMove", "cloneUndo"} => UNCHANGED engineVars
        /\ (lastOp' \in {"sourceMove", "sourceUndo"} /\ cloned # NoEngine) => cloned' = cloned
        /\ lastOp' = "clone" =>
              /\ cloned'.board = board'
              /\ cloned'.currentPlayer = currentPlayer'
              /\ cloned'.castlingRights = castlingRights'
              /\ cloned'.enPassantTarget = enPassantTarget'
              /\ cloned'.halfMoveClock = halfMoveClock'
              /\ cloned'.fullMoveNumber = fullMoveNumber'
              /\ cloned'.gameState = gameState' ]_vars

\* The clone has made a king move that the source has not: its board and
\* its castling rights differ from the source's.
C16_Witness ==
    /\ lastOp = "cloneMove"
    /\ lastOk
    /\ cloned # NoEngine
    /\ cloned.board # board
    /\ cloned.castlingRights # castlingRights
    /\ Len(cloned.moveHistory) > 0
    /\ Len(moveHistory) = 0

\* C17: undoMove() called with an empty moveHistory returns null and leaves
\* every field of the position unchanged.
C17_UndoOnEmptyHistoryIsNoOp ==
    Len(moveHistory) = 0 =>
        LET r == undoMove(This)
        IN r.result = NullRecord /\ r.e = This

\* The history is empty again after a move was made and undone on a loaded
\* position; a further undoMove has nothing to undo.
C17_Witness ==
    /\ Len(moveHistory) = 0
    /\ lastOp = "undoMove"
    /\ lastOk
    /\ root # 0
    /\ undoMove(This).result = NullRecord

\* ------------------------------------------------------------------------
\* ChessAI: evaluation.  A call either returns a number or throws; the
\* result is [threw, score], score being the number returned.
\* ------------------------------------------------------------------------

\* this.pieceValues.
pieceValues == [p |-> 100, n |-> 320, b |-> 330, r |-> 500, q |-> 900, k |-> 20000]

\* this.pst: the piece-square tables of initPieceSquareTables, from white's
\* side.
pst ==
    [
      p |->
          << <<    0,    0,    0,    0,    0,    0,    0,    0 >>,
             <<   50,   50,   50,   50,   50,   50,   50,   50 >>,
             <<   10,   10,   20,   30,   30,   20,   10,   10 >>,
             <<    5,    5,   10,   25,   25,   10,    5,    5 >>,
             <<    0,    0,    0,   20,   20,    0,    0,    0 >>,
             <<    5,   -5,  -10,    0,    0,  -10,   -5,    5 >>,
             <<    5,   10,   10,  -20,  -20,   10,   10,    5 >>,
             <<    0,    0,    0,    0,    0,    0,    0,    0 >> >>,
      n |->
          << <<  -50,  -40,  -30,  -30,  -30,  -30,  -40,  -50 >>,
             <<  -40,  -20,    0,    0,    0,    0,  -20,  -40 >>,
             <<  -30,    0,   10,   15,   15,   10,    0,  -30 >>,
             <<  -30,    5,   15,   20,   20,   15,    5,  -30 >>,
             <<  -30,    0,   15,   20,   20,   15,    0,  -30 >>,
             <<  -30,    5,   10,   15,   15,   10,    5,  -30 >>,
             <<  -40,  -20,    0,    5,    5,    0,  -20,  -40 >>,
             <<  -50,  -40,  -30,  -30,  -30,  -30,  -40,  -50 >> >>,
      b |->
          << <<  -20,  -10,  -10,  -10,  -10,  -10,  -10,  -20 >>,
             <<  -10,    0,    0,    0,    0,    0,    0,  -10 >>,
             <<  -10,    0,    5,   10,   10,    5,    0,  -10 >>,
             <<  -10,    5,    5,   10,   10,    5,    5,  -10 >>,
             <<  -10,    0,   10,   10,   10,   10,    0,  -10 >>,
             <<  -10,   10,   10,   10,   10,   10,   10,  -10 >>,
             <<  -10,    5,    0,    0,    0,    0,    5,  -10 >>,
             <<  -20,  -10,  -10,  -10,  -10,  -10,  -10,  -20 >> >>,
      r |->
          << <<    0,    0,    0,    0,    0,    0,    0,    0 >>,
             <<    5,   10,   10,   10,   10,   10,   10,    5 >>,
             <<   -5,    0,    0,    0,    0,    0,    0,   -5 >>,
             <<   -5,    0,    0,    0,    0,    0,    0,   -5 >>,
             <<   -5,    0,    0,    0,    0,    0,    0,   -5 >>,
             <<   -5,    0,    0,    0,    0,    0,    0,   -5 >>,
             <<   -5,    0,    0,    0,    0,    0,    0,   -5 >>,
             <<    0,    0,    0,    5,    5,    0,    0,    0 >> >>,
      q |->
          << <<  -20,  -10,  -10,   -5,   -5,  -10,  -10,  -20 >>,
             <<  -10,    0,    0,    0,    0,    0,    0,  -10 >>,
             <<  -10,    0,    5,    5,    5,    5,    0,  -10 >>,
             <<   -5,    0,    5,    5,    5,    5,    0,   -5 >>,
             <<    0,    0,    5,    5,    5,    5,    0,   -5 >>,
             <<  -10,    5,    5,    5,    5,    5,    0,  -10 >>,
             <<  -10,    0,    5,    0,    0,    0,    0,  -10 >>,
             <<  -20,  -10,  -10,   -5,   -5,  -10,  -10,  -20 >> >>,
      k |->
          [ middlegame |->
                << <<  -30,  -40,  -40,  -50,  -50,  -40,  -40,  -30 >>,
                   <<  -30,  -40,  -40,  -50,  -50,  -40,  -40,  -30 >>,
                   <<  -30,  -40,  -40,  -50,  -50,  -40,  -40,  -30 >>,
                   <<  -30,  -40,  -40,  -50,  -50,  -40,  -40,  -30 >>,
                   <<  -20,  -30,  -30,  -40,  -40,  -30,  -30,  -20 >>,
                   <<  -10,  -20,  -20,  -20,  -20,  -20,  -20,  -10 >>,
                   <<   20,   20,    0,    0,    0,    0,   20,   20 >>,
                   <<   20,   30,   10,    0,    0,   10,   30,   20 >> >>,
            endgame |->
                << <<  -50,  -40,  -30,  -20,  -20,  -30,  -40,  -50 >>,
                   <<  -30,  -20,  -10,    0,    0,  -10,  -20,  -30 >>,
                   <<  -30,  -10,   20,   30,   30,   20,  -10,  -30 >>,
                   <<  -30,  -10,   30,   40,   40,   30,  -10,  -30 >>,
                   <<  -30,  -10,   30,   40,   40,   30,  -10,  -30 >>,
                   <<  -30,  -10,   20,   30,   30,   20,  -10,  -30 >>,
                   <<  -30,  -30,    0,    0,    0,    0,  -30,  -30 >>,
                   <<  -50,  -30,  -30,  -30,  -30,  -30,  -30,  -50 >> >> ] ]

\* The types getPositionValue finds a table for; for any other type
\* this.pst[piece.type] is undefined and table[tableRow] throws a TypeError.
tabledTypes == DOMAIN pst

\* A call that ended in a TypeError.
Thrown == [threw |-> TRUE, score |-> 0]

\* A call that returned score.
Returned(score) == [threw |-> FALSE, score |-> score]

\* Number of pieces on the board, kings included (the loop of
\* getPositionValue for a king).
pieceCount(e) == Len(squaresOf(e, "white")) + Len(squaresOf(e, "black"))

\* A faulty getPositionValue that reads the table row of a black piece
\* without mirroring it.
getPositionValueUnmirrored(e, piece, row, col) ==
    LET table == IF piece.type = "k"
                 THEN IF pieceCount(e) <= 10 THEN pst.k.endgame ELSE pst.k.middlegame
                 ELSE pst[piece.type]
    IN table[row + 1][col + 1]

\* getPositionValue(piece, row, col, engine) for a piece whose type has a
\* table.
getPositionValue(e, piece, row, col) ==
    LET table == IF piece.type = "k"
                 THEN IF pieceCount(e) <= 10 THEN pst.k.endgame ELSE pst.k.middlegame
                 ELSE pst[piece.type]
        tableRow == IF piece.color = "white" THEN row ELSE 7 - row
    IN table[tableRow + 1][col + 1]

\* The sum of pieceValue + positionValue over the pieces on squares, from
\* the i-th on.
RECURSIVE materialFrom(_, _, _)
materialFrom(e, squares, i) ==
    IF i > Len(squares)
    THEN 0
    ELSE LET piece == pieceAt(e, squares[i])
         IN pieceValues[piece.type]
            + getPositionValue(e, piece, squares[i] \div 8, squares[i] % 8)
            + materialFrom(e, squares, i + 1)

\* The pieces of the colour that are not kings.
nonKings(e, squares) == SelectSeq(squares, LAMBDA idx : pieceAt(e, idx).type # "k")

\* evaluateKingSafety(engine, color).
evaluateKingSafety(e, color) ==
    LET king == findKing(e, color)
        central == IF king.col >= 2 /\ king.col <= 5 THEN -30 ELSE 0
        castled == IF /\ king.row = (IF color = "white" THEN 7 ELSE 0)
                      /\ (king.col <= 2 \/ king.col >= 6)
                   THEN 40 ELSE 0
        pawnShieldRow == IF color = "white" THEN king.row - 1 ELSE king.row + 1
        shield(dc) ==
            LET col == king.col + dc
            IN IF /\ col >= 0 /\ col < 8 /\ pawnShieldRow >= 0 /\ pawnShieldRow < 8
                  /\ getPiece(e, pawnShieldRow, col) # NoPiece
                  /\ getPiece(e, pawnShieldRow, col).type = "p"
                  /\ getPiece(e, pawnShieldRow, col).color = color
               THEN 15 ELSE 0
    IN IF king = NoSquare
       THEN 0
       ELSE central + castled + shield(-1) + shield(0) + shield(1)

\* evaluate(engine).  The mobility count sets engine.currentPlayer to each
\* colour in turn and puts the original value back, so the engine is left
\* as it was.
evaluate(e) ==
    IF e.gameState = "checkmate"
    THEN Returned(IF e.currentPlayer = "white" THEN -100000 ELSE 100000)
    ELSE IF e.gameState = "stalemate" \/ e.gameState = "draw"
    THEN Returned(0)
    ELSE LET white == squaresOf(e, "white")
             black == squaresOf(e, "black")
             untabled(squares) ==
                 \E i \in 1..Len(squares) : pieceAt(e, squares[i]).type \notin tabledTypes
             totalPieces == Len(nonKings(e, white)) + Len(nonKings(e, black))
             check == (IF isInCheck(e, "black") THEN 50 ELSE 0)
                      - (IF isInCheck(e, "white") THEN 50 ELSE 0)
             safety == IF totalPieces > 10
                       THEN evaluateKingSafety(e, "white") - evaluateKingSafety(e, "black")
                       ELSE 0
             mobility(whiteMoves, blackMoves) == (Len(whiteMoves) - Len(blackMoves)) * 5
         IN IF untabled(white) \/ untabled(black)
            THEN Thrown
            ELSE Returned(materialFrom(e, white, 1) - materialFrom(e, black, 1)
                          + mobility(getAllLegalMoves([e EXCEPT !.currentPlayer = "white"]).moves,
                                     getAllLegalMoves([e EXCEPT !.currentPlayer = "black"]).moves)
                          + check + safety)

\* ------------------------------------------------------------------------
\* ChessAI: search
\* ------------------------------------------------------------------------

\* Infinity, as a number beyond every score.
Infinity == 1000000000

\* A faulty setDifficulty that leaves 'hard' the randomness of 'medium'.
setDifficultyHardRandom(difficulty) ==
    CASE difficulty = "easy" -> [difficulty |-> difficulty, depth |-> 2, randomFactor |-> 30]
      [] difficulty = "medium" -> [difficulty |-> difficulty, depth |-> 3, randomFactor |-> 5]
      [] difficulty = "hard" -> [difficulty |-> difficulty, depth |-> 4, randomFactor |-> 5]
      [] OTHER -> [difficulty |-> difficulty, depth |-> 3, randomFactor |-> 5]

\* A faulty setDifficulty that gives 'medium' no randomness.
setDifficultyMediumExact(difficulty) ==
    CASE difficulty = "easy" -> [difficulty |-> difficulty, depth |-> 2, randomFactor |-> 30]
      [] difficulty = "medium" -> [difficulty |-> difficulty, depth |-> 3, randomFactor |-> 0]
      [] difficulty = "hard" -> [difficulty |-> difficulty, depth |-> 4, randomFactor |-> 0]
      [] OTHER -> [difficulty |-> difficulty, depth |-> 3, randomFactor |-> 0]

\* setDifficulty(difficulty): the fields of the ChessAI object.  randomFactor
\* is held in hundredths (0.3 is 30, 0.05 is 5).
setDifficulty(difficulty) ==
    CASE difficulty = "easy" -> [difficulty |-> difficulty, depth |-> 2, randomFactor |-> 30]
      [] difficulty = "medium" -> [difficulty |-> difficulty, depth |-> 3, randomFactor |-> 5]
      [] difficulty = "hard" -> [difficulty |-> difficulty, depth |-> 4, randomFactor |-> 0]
      [] OTHER -> [difficulty |-> difficulty, depth |-> 3, randomFactor |-> 5]

\* The score orderMoves gives the entry a of getAllLegalMoves: [nan, score].
\* pieceValues[capturedPiece.type] is undefined for a type without a value
\* and the score is then NaN.
moveScore(e, a) ==
    LET capturedPiece == getPiece(e, a.to.row, a.to.col)
        captures == a.move.capture /\ capturedPiece # NoPiece
        capture == IF captures /\ capturedPiece.type \in DOMAIN pieceValues
                   THEN pieceValues[capturedPiece.type] - pieceValues[a.piece.type] \div 10
                   ELSE 0
        promotion == IF a.move.promotion THEN 800 ELSE 0
        centre == IF /\ a.piece.type \in {"p", "n"}
                     /\ a.to.col >= 2 /\ a.to.col <= 5 /\ a.to.row >= 2 /\ a.to.row <= 5
                  THEN 10 ELSE 0
    IN [ nan |-> captures /\ capturedPiece.type \notin DOMAIN pieceValues,
         score |-> capture + promotion + centre ]

\* The comparator of orderMoves says that x goes before y: scoreB - scoreA
\* is negative for a = x, b = y.  A NaN difference counts as zero.
goesBefore(x, y) == ~x.nan /\ ~y.nan /\ x.score > y.score

\* sorted with the scored entry x put in: x passes every entry at the end
\* of sorted that it goes before.
RECURSIVE insertMove(_, _)
insertMove(sorted, x) ==
    IF Len(sorted) > 0 /\ goesBefore(x, sorted[Len(sorted)])
    THEN Append(insertMove(SubSeq(sorted, 1, Len(sorted) - 1), x), sorted[Len(sorted)])
    ELSE Append(sorted, x)

\* The scored entries scored[1..n], sorted.
RECURSIVE sortMoves(_, _)
sortMoves(scored, n) ==
    IF n = 0 THEN << >> ELSE insertMove(sortMoves(scored, n - 1), scored[n])

\* orderMoves(moves, engine): moves.sort(...) by descending score; the sort
\* is stable, entries of equal score keep the order of getAllLegalMoves.
orderMoves(moves, e) ==
    LET scored == [k \in 1..Len(moves) |->
                     [nan |-> moveScore(e, moves[k]).nan,
                      score |-> moveScore(e, moves[k]).score, k |-> k]]
        sorted == sortMoves(scored, Len(scored))
    IN [k \in 1..Len(moves) |-> moves[sorted[k].k]]

\* engine.clone() followed by clonedEngine.makeMove(move.from.row,
\* move.from.col, move.to.row, move.to.col, move.promotion || 'q'): the
\* promotion flag of a move is the boolean true, and true || 'q' is true,
\* so a promoting move is made with promotionPiece true (held as "true").
clonedAfter(e, move) ==
    makeMove(clone(e), move.from.row, move.from.col, move.to.row, move.to.col,
             IF move.move.promotion THEN "true" ELSE "q").e

Max(a, b) == IF a >= b THEN a ELSE b

Min(a, b) == IF a <= b THEN a ELSE b

\* if (beta <= alpha) break.
cutoff(alpha, beta) == beta <= alpha

\* minimax(engine, depth, alpha, beta, isMaximizing) of the ChessAI object
\* chessAI, and its loop over orderedMoves from the i-th move on with the running
\* maxEval or minEval in best.
RECURSIVE minimax(_, _, _, _, _, _)
RECURSIVE minimaxLoop(_, _, _, _, _, _, _, _, _)
minimaxLoop(chessAI, e, orderedMoves, i, depth, alpha, beta, isMaximizing, best) ==
    IF i > Len(orderedMoves)
    THEN Returned(best)
    ELSE LET next(evalScore) ==
                 IF evalScore.threw
                 THEN Thrown
                 ELSE IF isMaximizing
                 THEN IF cutoff(Max(alpha, evalScore.score), beta)
                      THEN Returned(Max(best, evalScore.score))
                      ELSE minimaxLoop(chessAI, e, orderedMoves, i + 1, depth,
                                       Max(alpha, evalScore.score), beta, isMaximizing,
                                       Max(best, evalScore.score))
                 ELSE IF cutoff(alpha, Min(beta, evalScore.score))
                      THEN Returned(Min(best, evalScore.score))
                      ELSE minimaxLoop(chessAI, e, orderedMoves, i + 1, depth,
                                       alpha, Min(beta, evalScore.score), isMaximizing,
                                       Min(best, evalScore.score))
         IN next(minimax(chessAI, clonedAfter(e, orderedMoves[i]), depth - 1,
                         alpha, beta, ~isMaximizing))

minimax(chessAI, e, depth, alpha, beta, isMaximizing) ==
    IF depth = 0 \/ e.gameState \in {"checkmate", "stalemate", "draw"}
    THEN evaluate(e)
    ELSE LET search(moves) ==
                 IF Len(moves) = 0
                 THEN IF isInCheck(e, e.currentPlayer)
                      THEN Returned(IF isMaximizing
                                    THEN -100000 + (chessAI.depth - depth)
                                    ELSE 100000 - (chessAI.depth - depth))
                      ELSE Returned(0)
                 ELSE minimaxLoop(chessAI, e, orderMoves(moves, e), 1, depth, alpha, beta,
                                  isMaximizing,
                                  IF isMaximizing THEN -Infinity ELSE Infinity)
         IN search(getAllLegalMoves(e).moves)

\* getBestMove returned null.
NullMove == [from |-> NoSquare, to |-> NoSquare, piece |-> NoPiece, move |-> Move(-1, -1)]

\* The part of getBestMove that does not depend on Math.random: the ordered
\* moves and the value minimax gives each of them.
rootSearch(chessAI, e) ==
    LET isMaximizing == e.currentPlayer = "white"
        valued(orderedMoves) ==
            [ moves |-> orderedMoves,
              values |-> [k \in 1..Len(orderedMoves) |->
                            minimax(chessAI, clonedAfter(e, orderedMoves[k]),
                                    chessAI.depth - 1, -Infinity, Infinity, ~isMaximizing)] ]
        ordered(moves) == valued(orderMoves(moves, e))
    IN ordered(getAllLegalMoves(e).moves)

\* A faulty loop of getBestMove: a move that only equals the best value so
\* far replaces the best move.
RECURSIVE bestFromLastOfTies(_, _, _, _, _, _, _)
bestFromLastOfTies(chessAI, search, noise, k, isMaximizing, bestValue, bestMove) ==
    IF k > Len(search.moves)
    THEN [threw |-> FALSE, move |-> bestMove, value |-> bestValue]
    ELSE IF search.values[k].threw
    THEN [threw |-> TRUE, move |-> NullMove, value |-> 0]
    ELSE LET adjustedValue == search.values[k].score
                              + (IF chessAI.randomFactor > 0 THEN noise[k] ELSE 0)
             better == IF isMaximizing
                       THEN adjustedValue >= bestValue
                       ELSE adjustedValue <= bestValue
         IN bestFromLastOfTies(chessAI, search, noise, k + 1, isMaximizing,
                               IF better THEN adjustedValue ELSE bestValue,
                               IF better THEN search.moves[k] ELSE bestMove)

\* The loop of getBestMove from the k-th ordered move on; noise[k] is the
\* value of (Math.random() - 0.5) * 20 drawn for the k-th move.
RECURSIVE bestFrom(_, _, _, _, _, _, _)
bestFrom(chessAI, search, noise, k, isMaximizing, bestValue, bestMove) ==
    IF k > Len(search.moves)
    THEN [threw |-> FALSE, move |-> bestMove, value |-> bestValue]
    ELSE IF search.values[k].threw
    THEN [threw |-> TRUE, move |-> NullMove, value |-> 0]
    ELSE LET adjustedValue == search.values[k].score
                              + (IF chessAI.randomFactor > 0 THEN noise[k] ELSE 0)
             better == IF isMaximizing
                       THEN adjustedValue > bestValue
                       ELSE adjustedValue < bestValue
         IN bestFrom(chessAI, search, noise, k + 1, isMaximizing,
                     IF better THEN adjustedValue ELSE bestValue,
                     IF better THEN search.moves[k] ELSE bestMove)

\* getBestMove(engine) once the moves are valued.  random holds what the
\* calls of Math.random give: chance (the value compared with
\* this.randomFactor, in hundredths), pick (Math.floor(Math.random() *
\* moves.length), from 1) and noise.
getBestMoveWith(chessAI, e, search, random) ==
    IF /\ chessAI.difficulty = "easy"
       /\ random.chance < chessAI.randomFactor
       /\ Len(search.moves) > 0
    THEN [ threw |-> FALSE,
           move |-> getAllLegalMoves(e).moves[random.pick],
           value |-> 0 ]
    ELSE bestFrom(chessAI, search, random.noise, 1, e.currentPlayer = "white",
                  IF e.currentPlayer = "white" THEN -Infinity ELSE Infinity, NullMove)

getBestMove(chessAI, e, random) == getBestMoveWith(chessAI, e, rootSearch(chessAI, e), random)

\* A faulty getBestMove: the first ordered move is made on the engine itself
\* and not on a clone of it.
getBestMoveLeavesPlayed(chessAI, e, random) ==
    LET orderedMoves == orderMoves(getAllLegalMoves(e).moves, e)
    IN IF Len(orderedMoves) = 0
       THEN e
       ELSE makeMove(e, orderedMoves[1].from.row, orderedMoves[1].from.col,
                     orderedMoves[1].to.row, orderedMoves[1].to.col,
                     IF orderedMoves[1].move.promotion THEN "true" ELSE "q").e

\* The engine as getBestMove(engine) leaves it: the call reads it with
\* engine.getAllLegalMoves(), once more when the random move of 'easy' is
\* tried first and there is none, and with engine.clone(); every makeMove
\* is made on a clone.
getBestMoveLeaves(chessAI, e, random) ==
    LET lucky == chessAI.difficulty = "easy" /\ random.chance < chessAI.randomFactor
        first == getAllLegalMoves(e)
    IN IF lucky /\ Len(first.moves) = 0
       THEN getAllLegalMoves(first.e).e
       ELSE first.e

\* ------------------------------------------------------------------------
\* AI runs: a position is loaded, a difficulty is set, and getBestMove is
\* called on the position up to MaxCalls times; the move it returns may be
\* played as makeAIMove of game.js plays it, which ends the run.
\* ------------------------------------------------------------------------

\* "k7/8/8/8/8/8/7P/K7 w - - 0 1": king and pawn against king;
\* "k7/4P3/8/8/8/8/8/K7 w - - 0 1": the pawn promotes on the next move;
\* "k7/8/1Q6/8/8/8/8/K7 b - - 0 1": black has no legal move;
\* "7k/8/8/8/1Q6/8/4p1PP/r6K w - - 0 1": white is in check and can only
\* interpose the queen on e1, where it stops the pawn, or on b1.
AIInputs ==
    << << "k", "7", "/", "8", "/", "8", "/", "8", "/", "8", "/", "8", "/", "7", "P", "/", "K", "7", " ", "w", " ", "-", " ", "-", " ", "0", " ", "1" >>,
       << "k", "7", "/", "4", "P", "3", "/", "8", "/", "8", "/", "8", "/", "8", "/", "8", "/", "K", "7", " ", "w", " ", "-", " ", "-", " ", "0", " ", "1" >>,
       << "k", "7", "/", "8", "/", "1", "Q", "6", "/", "8", "/", "8", "/", "8", "/", "8", "/", "K", "7", " ", "b", " ", "-", " ", "-", " ", "0", " ", "1" >>,
       << "7", "k", "/", "8", "/", "8", "/", "8", "/", "1", "Q", "6", "/", "8", "/", "4", "p", "1", "P", "P", "/", "r", "6", "K", " ", "w", " ", "-", " ", "-", " ", "0", " ", "1" >> >>

\* Values of Math.random() in hundredths, as compared with
\* this.randomFactor.
ChanceInputs == {0, 29, 30, 99}

\* Values of (Math.random() - 0.5) * 20, which lies in [-10, 10).  The
\* values drawn in one call of getBestMove are these in this order, taken
\* round from any one of them.
NoiseInputs == << -10, 0, 9 >>

\* The values of (Math.random() - 0.5) * 20 for count moves, from the
\* first-th of NoiseInputs on.
noiseFrom(first, count) ==
    [k \in 1..count |-> NoiseInputs[((first + k - 2) % Len(NoiseInputs)) + 1]]

\* Number of getBestMove calls on one position.
MaxCalls == 2

\* new ChessEngine() and new ChessAI(): the default difficulty is 'medium'.
InitAI ==
    /\ Is(resetEngine)
    /\ cloned = NoEngine
    /\ lastOp = "reset"
    /\ lastOk = TRUE
    /\ before = << >>
    /\ root = 0
    /\ freeCalls = 0
    /\ fenInput = NoInput
    /\ perftStack = << >>
    /\ perftNodes = 0
    /\ perftCounts = << >>
    /\ ai = setDifficulty("medium")
    /\ aiCalls = << >>
    /\ chessGame = newChessGame

\* engine.loadFromFEN(AIInputs[i]).
AILoad(i) ==
    /\ lastOp = "reset"
    /\ \E r \in {loadFromFEN(This, AIInputs[i])} :
          /\ Becomes(r.e)
          /\ lastOk' = r.result
    /\ lastOp' = "loadFromFEN"
    /\ root' = i
    /\ UNCHANGED << cloned, before, freeCalls, fenInput, perftVars, aiVars, chessGame >>

\* ai.setDifficulty(difficulty).
SetDifficulty(difficulty) ==
    /\ lastOp = "loadFromFEN"
    /\ ai' = setDifficulty(difficulty)
    /\ lastOp' = "setDifficulty"
    /\ UNCHANGED << engineVars, cloned, lastOk, before, root, freeCalls, fenInput,
                    perftVars, aiCalls, chessGame >>

\* ai.getBestMove(engine): the whole call, with every outcome of its
\* Math.random calls.
GetBestMove ==
    /\ lastOp \in {"setDifficulty", "getBestMove"}
    /\ Len(aiCalls) < MaxCalls
    /\ \E search \in {rootSearch(ai, This)} :
       \E chance \in ChanceInputs :
       \E pick \in (IF Len(search.moves) > 0 THEN 1..Len(search.moves) ELSE {1}) :
       \E first \in 1..Len(NoiseInputs) :
       \E noise \in {noiseFrom(first, Len(search.moves))} :
       \E random \in {[chance |-> chance, pick |-> pick, noise |-> noise]} :
          /\ aiCalls' = Append(aiCalls, getBestMoveWith(ai, This, search, random))
          /\ Becomes(getBestMoveLeaves(ai, This, random))
    /\ lastOp' = "getBestMove"
    /\ UNCHANGED << cloned, lastOk, before, root, freeCalls, fenInput, perftVars, ai,
                    chessGame >>

\* makeAIMove of game.js: engine.makeMove(bestMove.from.row,
\* bestMove.from.col, bestMove.to.row, bestMove.to.col, bestMove.promotion
\* || 'q') with the move getBestMove returned.
AIPlay ==
    /\ lastOp = "getBestMove"
    /\ \E bestMove \in {aiCalls[Len(aiCalls)].move} :
          /\ ~aiCalls[Len(aiCalls)].threw
          /\ bestMove # NullMove
          /\ \E r \in {makeMove(This, bestMove.from.row, bestMove.from.col,
                                bestMove.to.row, bestMove.to.col,
                                IF bestMove.move.promotion THEN "true" ELSE "q")} :
                /\ Becomes(r.e)
                /\ lastOk' = (r.result # NullRecord)
                /\ before' = Append(before, clone(This))
    /\ lastOp' = "makeMove"
    /\ UNCHANGED << cloned, root, freeCalls, fenInput, perftVars, aiVars, chessGame >>

NextAI ==
    \/ \E i \in 1..Len(AIInputs) : AILoad(i)
    \/ \E difficulty \in {"easy", "medium", "hard"} : SetDifficulty(difficulty)
    \/ GetBestMove
    \/ AIPlay

SpecAI == InitAI /\ [][NextAI]_vars

\* ------------------------------------------------------------------------
\* C18.  For every difficulty and every position, getBestMove returns null
\* if and only if the side to move has no legal move; otherwise it returns
\* a move whose from/to pair is a member of getAllLegalMoves() of that
\* position.  A call that ends in an exception returns neither.
\* ------------------------------------------------------------------------
isLegalChoice(e, bestMove) ==
    \E k \in 1..Len(getAllLegalMoves(e).moves) :
        /\ getAllLegalMoves(e).moves[k].from = bestMove.from
        /\ getAllLegalMoves(e).moves[k].to = bestMove.to

C18_BestMoveNullIffNoLegalMove ==
    (lastOp = "getBestMove") =>
        \A k \in 1..Len(aiCalls) :
            /\ ~aiCalls[k].threw
            /\ (aiCalls[k].move = NullMove) <=> noLegalMove(This)
            /\ (aiCalls[k].move # NullMove) => isLegalChoice(This, aiCalls[k].move)

\* ------------------------------------------------------------------------
\* C19.  With difficulty 'hard', two calls of getBestMove on the same
\* position give the same outcome, whatever Math.random would return and
\* whatever was called before.
\* ------------------------------------------------------------------------
C19_HardIsDeterministic ==
    (lastOp = "getBestMove" /\ ai.difficulty = "hard") =>
        \A j, k \in 1..Len(aiCalls) : aiCalls[j] = aiCalls[k]

\* Two calls with 'hard' on a position with legal moves have returned a move.
C19_Witness ==
    /\ lastOp = "getBestMove"
    /\ ai.difficulty = "hard"
    /\ Len(aiCalls) = 2
    /\ ~aiCalls[1].threw
    /\ aiCalls[1].move # NullMove
    /\ ~noLegalMove(This)

\* ------------------------------------------------------------------------
\* C20.  For every position and depth, minimax(position, depth, -Infinity,
\* +Infinity, maximizing) with alpha-beta cutoffs gives the same outcome as
\* a minimax over the same tree with the cutoff removed, every ordered move
\* explored; and with 'hard' the best value getBestMove finds at the root
\* is the brute-force minimax value of the position at the same depth.
\* ------------------------------------------------------------------------

\* minimax with the two cutoff tests removed.
RECURSIVE minimaxFull(_, _, _, _)
RECURSIVE minimaxFullLoop(_, _, _, _, _, _, _)
minimaxFullLoop(chessAI, e, orderedMoves, i, depth, isMaximizing, best) ==
    IF i > Len(orderedMoves)
    THEN Returned(best)
    ELSE LET next(evalScore) ==
                 IF evalScore.threw
                 THEN Thrown
                 ELSE minimaxFullLoop(chessAI, e, orderedMoves, i + 1, depth, isMaximizing,
                                      IF isMaximizing
                                      THEN Max(best, evalScore.score)
                                      ELSE Min(best, evalScore.score))
         IN next(minimaxFull(chessAI, clonedAfter(e, orderedMoves[i]), depth - 1,
                             ~isMaximizing))

minimaxFull(chessAI, e, depth, isMaximizing) ==
    IF depth = 0 \/ e.gameState \in {"checkmate", "stalemate", "draw"}
    THEN evaluate(e)
    ELSE LET search(moves) ==
                 IF Len(moves) = 0
                 THEN IF isInCheck(e, e.currentPlayer)
                      THEN Returned(IF isMaximizing
                                    THEN -100000 + (chessAI.depth - depth)
                                    ELSE 100000 - (chessAI.depth - depth))
                      ELSE Returned(0)
                 ELSE minimaxFullLoop(chessAI, e, orderMoves(moves, e), 1, depth,
                                      isMaximizing,
                                      IF isMaximizing THEN -Infinity ELSE Infinity)
         IN search(getAllLegalMoves(e).moves)

\* Depths at which the two searches are compared.
MaxDepth == 2

C20_AlphaBetaEqualsBruteForce ==
    (lastOp = "setDifficulty") =>
        /\ \A depth \in 1..MaxDepth :
              minimax(ai, This, depth, -Infinity, Infinity, This.currentPlayer = "white")
              = minimaxFull(ai, This, depth, This.currentPlayer = "white")
        /\ (ai.difficulty = "hard" /\ ~noLegalMove(This)) =>
              \A random \in {[chance |-> 99, pick |-> 1,
                              noise |-> [k \in 1..Len(getAllLegalMoves(This).moves) |-> 0]]} :
                 /\ getBestMove(ai, This, random).threw
                    = minimaxFull(ai, This, ai.depth, This.currentPlayer = "white").threw
                 /\ getBestMove(ai, This, random).value
                    = minimaxFull(ai, This, ai.depth, This.currentPlayer = "white").score

\* ------------------------------------------------------------------------
\* C21.  For every position p, evaluate(mirror(p)) = -evaluate(p), where
\* mirror swaps the colour of every piece, flips the ranks, swaps the side
\* to move and the castling rights of the two colours and flips the
\* en-passant target; for positions in play and for positions whose
\* gameState is checkmate, stalemate or draw.
\* ------------------------------------------------------------------------
mirrorPiece(piece) ==
    IF piece = NoPiece THEN NoPiece ELSE Piece(piece.type, Opponent(piece.color))

mirror(e) ==
    [ e EXCEPT
        !.board = [r \in 1..8 |-> [c \in 1..8 |-> mirrorPiece(e.board[9 - r][c])]],
        !.currentPlayer = Opponent(e.currentPlayer),
        !.castlingRights = [white |-> e.castlingRights.black,
                            black |-> e.castlingRights.white],
        !.enPassantTarget = IF e.enPassantTarget = NoSquare
                            THEN NoSquare
                            ELSE Square(7 - e.enPassantTarget.row, e.enPassantTarget.col) ]

negated(evalScore) == [evalScore EXCEPT !.score = -evalScore.score]

C21_MirrorNegatesEvaluation ==
    (root # 0 /\ lastOk) => evaluate(mirror(This)) = negated(evaluate(This))

\* A position in play after a move, in which white may still castle on the
\* king's side and black may not, and whose score is not 0.
C21_Witness ==
    /\ root # 0
    /\ lastOp = "makeMove"
    /\ lastOk
    /\ gameState \in {"playing", "check"}
    /\ castlingRights.white.kingSide
    /\ ~castlingRights.black.kingSide
    /\ evaluate(This).score # 0

\* ------------------------------------------------------------------------
\* C22.  setDifficulty configures the search so that 'easy' searches 2
\* plies, returns the legal move Math.random picks when Math.random() < 0.3
\* and otherwise adds the noise to each root score; 'medium' searches 3
\* plies, never returns a random move and adds the noise; 'hard' searches 4
\* plies, never returns a random move and adds no noise.  Stated of every
\* getBestMove call that may follow setDifficulty, for every outcome of
\* Math.random.
\* ------------------------------------------------------------------------

\* The plies the claim gives the difficulty.
pliesOf(difficulty) ==
    CASE difficulty = "easy" -> 2 [] difficulty = "medium" -> 3 [] difficulty = "hard" -> 4

\* The best of the root scores of search for the side to move, each with
\* its noise added when jitter is set.
isBestScore(value, search, noise, jitter, isMaximizing) ==
    LET adjusted(k) == search.values[k].score + (IF jitter THEN noise[k] ELSE 0)
    IN /\ \E k \in 1..Len(search.moves) : adjusted(k) = value
       /\ \A k \in 1..Len(search.moves) :
             IF isMaximizing THEN adjusted(k) <= value ELSE adjusted(k) >= value

\* The outcome r of getBestMove is the one the claim gives the difficulty.
asConfigured(r, difficulty, search, random, legalMoves, isMaximizing) ==
    IF difficulty = "easy" /\ random.chance < 30 /\ Len(legalMoves) > 0
    THEN ~r.threw /\ r.move = legalMoves[random.pick]
    ELSE IF \E k \in 1..Len(search.moves) : search.values[k].threw
    THEN r.threw
    ELSE IF Len(legalMoves) = 0
    THEN ~r.threw /\ r.move = NullMove
    ELSE /\ ~r.threw
         /\ r.move # NullMove
         /\ isBestScore(r.value, search, random.noise, difficulty # "hard", isMaximizing)

C23_DrawBeforeCheck ==
    (root # 0 /\ lastOp = "makeMove" /\ lastOk /\ ~noLegalMove(This)) =>
        /\ isDraw(This) => gameState = "draw"
        /\ gameState = "check" => ~isDraw(This)

\* ------------------------------------------------------------------------
\* Material runs: a position of the two kings and up to two more pieces a
\* side is loaded on a new ChessEngine and isInsufficientMaterial() is
\* called on it.
\* ------------------------------------------------------------------------

\* The row of a side's pieces, as the characters of black's row (rank 7)
\* and of white's row (rank 2): "8", "b7", "1b6", "n7", "p7", "r7", "q7",
\* "bb6", "bn6", "nn6", "b1b5".
MaterialInputs ==
    << [black |-> << "8" >>, white |-> << "8" >>],
       [black |-> << "b", "7" >>, white |-> << "B", "7" >>],
       [black |-> << "1", "b", "6" >>, white |-> << "1", "B", "6" >>],
       [black |-> << "n", "7" >>, white |-> << "N", "7" >>],
       [black |-> << "p", "7" >>, white |-> << "P", "7" >>],
       [black |-> << "r", "7" >>, white |-> << "R", "7" >>],
       [black |-> << "q", "7" >>, white |-> << "Q", "7" >>],
       [black |-> << "b", "b", "6" >>, white |-> << "B", "B", "6" >>],
       [black |-> << "b", "n", "6" >>, white |-> << "B", "N", "6" >>],
       [black |-> << "n", "n", "6" >>, white |-> << "N", "N", "6" >>],
       [black |-> << "b", "1", "b", "5" >>, white |-> << "B", "1", "B", "5" >>] >>

\* new ChessEngine(), and the position to load: "4k3/<black's row>/8/8/8/8/
\* <white's row>/4K3 w - - 0 1".
InitMaterial ==
    /\ Is(resetEngine)
    /\ cloned = NoEngine
    /\ lastOp = "reset"
    /\ lastOk = TRUE
    /\ before = << >>
    /\ root = 0
    /\ freeCalls = 0
    /\ \E i, j \in 1..Len(MaterialInputs) :
          fenInput = [ rows |-> << << "4", "k", "3" >>, MaterialInputs[i].black, << "8" >>,
                                   << "8" >>, << "8" >>, << "8" >>,
                                   MaterialInputs[j].white, << "4", "K", "3" >> >>,
                       fields |-> << << "w" >>, << "-" >>, << "-" >>, << "0" >>, << "1" >> >>,
                       pad |-> 0 ]
    /\ perftStack = << >>
    /\ perftNodes = 0
    /\ perftCounts = << >>
    /\ ai = NoAI
    /\ aiCalls = << >>
    /\ chessGame = newChessGame

\* isInsufficientMaterial() on the loaded position; lastOk is what it
\* returns.
IsInsufficientMaterial ==
    /\ lastOp = "loadFromFEN"
    /\ lastOk
    /\ lastOp' = "isInsufficientMaterial"
    /\ lastOk' = isInsufficientMaterial(This)
    /\ UNCHANGED << engineVars, cloned, before, root, freeCalls, fenInput, perftVars, aiVars, chessGame >>

NextMaterial == LoadInput \/ IsInsufficientMaterial

SpecMaterial == InitMaterial /\ [][NextMaterial]_vars

\* ------------------------------------------------------------------------
\* C24.  isInsufficientMaterial returns true exactly for: king against
\* king; king and one bishop or one knight against the lone king; king and
\* bishop against king and bishop with both bishops on squares of one
\* colour.  It returns false for every other piece set.
\* ------------------------------------------------------------------------

\* The squares (row-major indices) of the pieces of the type and colour.
squaresWith(e, type, color) ==
    { idx \in 0..63 : pieceAt(e, idx) = Piece(type, color) }

\* The number of pieces of one of the types, of either colour.
countOf(e, types) ==
    Cardinality({ idx \in 0..63 : pieceAt(e, idx).type \in types })

\* The piece sets of the claim.
drawnMaterial(e) ==
    /\ countOf(e, {"p", "r", "q"}) = 0
    /\ \/ countOf(e, {"b", "n"}) <= 1
       \/ /\ countOf(e, {"n"}) = 0
          /\ Cardinality(squaresWith(e, "b", "white")) = 1
          /\ Cardinality(squaresWith(e, "b", "black")) = 1
          /\ \A w \in squaresWith(e, "b", "white") :
             \A b \in squaresWith(e, "b", "black") :
                ((w \div 8) + (w % 8)) % 2 = ((b \div 8) + (b % 8)) % 2

C24_InsufficientMaterialSets ==
    (lastOp = "isInsufficientMaterial") => (lastOk <=> drawnMaterial(This))

\* isInsufficientMaterial has returned false for king and bishop against
\* king and bishop on squares of different colours.
C24_Witness ==
    /\ lastOp = "isInsufficientMaterial"
    /\ ~lastOk
    /\ countOf(This, {"b"}) = 2
    /\ countOf(This, {"p", "r", "q", "n"}) = 0
    /\ Cardinality(squaresWith(This, "b", "white")) = 1

\* ------------------------------------------------------------------------
\* C25.  A successful makeMove clears castling rights in exactly these
\* cases and leaves every other flag as it was: a king move clears both
\* flags of the king's colour; a rook leaving its own home corner clears
\* the flag of that side; a rook captured on its home corner clears the
\* owner's flag of that side.  A rook moving from, or captured on, any
\* other square of the a- or h-file changes no flag.
\* ------------------------------------------------------------------------

\* The home corner of the rook of the colour and side.
homeCorner(color, side) ==
    Square(IF color = "white" THEN 7 ELSE 0, IF side = "kingSide" THEN 7 ELSE 0)

\* The move of the record clears the flag of the colour and side.
clearsRight(record, color, side) ==
    \/ record.piece = Piece("k", color)
    \/ record.piece = Piece("r", color) /\ record.from = homeCorner(color, side)
    \/ record.captured = Piece("r", color) /\ record.to = homeCorner(color, side)

C25_CastlingRightsCleared ==
    [][ (root # 0 /\ lastOp' = "makeMove" /\ lastOk'
         /\ Len(moveHistory') = Len(moveHistory) + 1)
        => \A color \in {"white", "black"} :
           \A side \in {"kingSide", "queenSide"} :
              castlingRights'[color][side]
              = (castlingRights[color][side]
                 /\ ~clearsRight(moveHistory'[Len(moveHistory')], color, side)) ]_vars

\* ------------------------------------------------------------------------
\* C26.  After every successful makeMove, enPassantTarget is the square the
\* pawn passed over if the move was a pawn two-square advance and null
\* otherwise; and an en-passant capture is offered only on the ply that
\* follows the double push: whenever moves have been made and a move with
\* the enPassant flag is offered, the last move made was a pawn double push
\* and the offered target is the square that pawn passed over.
\* ------------------------------------------------------------------------

\* The record is of a pawn's two-square advance.
isDoublePush(record) ==
    /\ record.piece.type = "p"
    /\ record.from.col = record.to.col
    /\ (record.to.row - record.from.row) \in {-2, 2}

\* The square the pawn of the record passed over.
passedOver(record) == Square((record.from.row + record.to.row) \div 2, record.from.col)

C26_EnPassantTargetOnePly ==
    /\ [][ (lastOp' = "makeMove" /\ lastOk' /\ Len(moveHistory') = Len(moveHistory) + 1)
           => LET record == moveHistory'[Len(moveHistory')]
              IN enPassantTarget' = IF isDoublePush(record)
                                    THEN passedOver(record)
                                    ELSE NoSquare ]_vars
    /\ [](Len(moveHistory) > 0 =>
            \A legalMoves \in {getAllLegalMoves(This).moves} :
            \A k \in 1..Len(legalMoves) :
               legalMoves[k].move.enPassant =>
                  /\ isDoublePush(moveHistory[Len(moveHistory)])
                  /\ legalMoves[k].to = passedOver(moveHistory[Len(moveHistory)]))

\* A double push has just been made and the en-passant capture of the pawn
\* is on offer.
C26_Witness ==
    /\ lastOp = "makeMove"
    /\ lastOk
    /\ Len(moveHistory) > 0
    /\ isDoublePush(moveHistory[Len(moveHistory)])
    /\ enPassantTarget = passedOver(moveHistory[Len(moveHistory)])
    /\ \E k \in 1..Len(getAllLegalMoves(This).moves) :
          getAllLegalMoves(This).moves[k].move.enPassant

\* ------------------------------------------------------------------------
\* C27.  A successful makeMove sets halfMoveClock to 0 if the moved piece
\* is a pawn or a piece was captured (en passant included) and otherwise
\* increases it by exactly 1; increases fullMoveNumber by exactly 1 if
\* black moved and leaves it unchanged if white moved; flips the side to
\* move; and appends exactly one entry to moveHistory and one to
\* positionHistory.
\* ------------------------------------------------------------------------

\* The number of pieces on the board.
piecesOnBoard(b) ==
    Cardinality({ idx \in 0..63 : b[(idx \div 8) + 1][(idx % 8) + 1] # NoPiece })

C27_ClocksAndHistories ==
    [][ (lastOp' = "makeMove" /\ lastOk')
        => LET mover == currentPlayer
               pawnMoved == \E r, c \in 1..8 :
                               /\ board[r][c] = Piece("p", mover)
                               /\ board'[r][c] = NoPiece
               captured == piecesOnBoard(board') < piecesOnBoard(board)
           IN /\ halfMoveClock' = IF pawnMoved \/ captured THEN 0 ELSE halfMoveClock + 1
              /\ fullMoveNumber' = IF mover = "black"
                                   THEN fullMoveNumber + 1
                                   ELSE fullMoveNumber
              /\ currentPlayer' = Opponent(currentPlayer)
              /\ Len(moveHistory') = Len(moveHistory) + 1
              /\ SubSeq(moveHistory', 1, Len(moveHistory)) = moveHistory
              /\ Len(positionHistory') = Len(positionHistory) + 1
              /\ SubSeq(positionHistory', 1, Len(positionHistory)) = positionHistory ]_vars

\* A piece other than a pawn has captured, which reset a running clock.
C27_Witness ==
    /\ lastOp = "makeMove"
    /\ lastOk
    /\ Len(before) > 0
    /\ before[Len(before)].halfMoveClock > 0
    /\ halfMoveClock = 0
    /\ moveHistory[Len(moveHistory)].piece.type # "p"
    /\ moveHistory[Len(moveHistory)].captured # NoPiece

\* ------------------------------------------------------------------------
\* C28.  getValidMoves offers a castling move for a king if and only if
\* the corresponding castling right is held, every square between the king
\* and that rook is empty, the king is not in check, and neither of the two
\* squares the king crosses or lands on is attacked by the opponent; an
\* attack on the b-file square alone does not prevent queenside castling.
\* ------------------------------------------------------------------------

\* The columns between the king's file and the rook's corner.
columnsBetween(side) == IF side = "kingSide" THEN {5, 6} ELSE {1, 2, 3}

\* The columns the king crosses and lands on.
kingPath(side) == IF side = "kingSide" THEN {5, 6} ELSE {2, 3}

\* The castling moves to the side among the moves getValidMoves returns for
\* the square.
castlingOffers(e, square, side) ==
    LET moves == getValidMoves(e, square.row, square.col).moves
    IN { i \in 1..Len(moves) : moves[i].castling = side }

mayCastle(e, color, side) ==
    LET baseRow == IF color = "white" THEN 7 ELSE 0
    IN /\ e.castlingRights[color][side]
       /\ \A c \in columnsBetween(side) : getPiece(e, baseRow, c) = NoPiece
       /\ ~isInCheck(e, color)
       /\ \A c \in kingPath(side) : ~isSquareAttacked(e, baseRow, c, Opponent(color))

C28_CastlingOfferedIff ==
    \A king \in {findKing(This, currentPlayer)} :
        king # NoSquare
        => \A side \in {"kingSide", "queenSide"} :
               castlingOffers(This, king, side) # {}
                 <=> mayCastle(This, currentPlayer, side)

\* White may castle to the queenside although black attacks b1.
C28_Witness ==
    /\ currentPlayer = "white"
    /\ findKing(This, "white") = Square(7, 4)
    /\ getPiece(This, 7, 0) = Piece("r", "white")
    /\ isSquareAttacked(This, 7, 1, "black")
    /\ ~isSquareAttacked(This, 7, 2, "black")
    /\ ~isSquareAttacked(This, 7, 3, "black")
    /\ castlingOffers(This, Square(7, 4), "queenSide") # {}

\* ------------------------------------------------------------------------
\* C29.  When makeMove applies an en-passant capture, the captured pawn is
\* removed from the square beside the capturing pawn's origin (row of
\* from, column of to), the destination square holds the capturing pawn,
\* and the move record has enPassant set and captured equal to that pawn;
\* undoMove of that move puts the captured pawn back on that square and
\* leaves the destination square empty.
\* ------------------------------------------------------------------------

\* The move of the record is a pawn's diagonal step onto an empty square
\* that is the en-passant target of position e.
isEnPassantCapture(e, record) ==
    /\ record.piece.type = "p"
    /\ record.from.col # record.to.col
    /\ getPiece(e, record.to.row, record.to.col) = NoPiece
    /\ e.enPassantTarget = record.to

C29_EnPassantCaptureAndUndo ==
    [][ /\ (lastOp' = "makeMove" /\ lastOk')
           => \A record \in {moveHistory'[Len(moveHistory')]} :
                 /\ record.enPassant <=> isEnPassantCapture(This, record)
                 /\ record.enPassant
                    => /\ record.captured = Piece("p", Opponent(record.piece.color))
                       /\ record.captured = board[record.from.row + 1][record.to.col + 1]
                       /\ board'[record.from.row + 1][record.to.col + 1] = NoPiece
                       /\ board'[record.to.row + 1][record.to.col + 1] = record.piece
                       /\ board'[record.from.row + 1][record.from.col + 1] = NoPiece
        /\ (lastOp' = "undoMove" /\ lastOk')
           => \A record \in {moveHistory[Len(moveHistory)]} :
                 record.enPassant
                 => /\ board'[record.from.row + 1][record.to.col + 1] = record.captured
                    /\ board'[record.to.row + 1][record.to.col + 1] = NoPiece
                    /\ board'[record.from.row + 1][record.from.col + 1] = record.piece ]_vars

\* An en-passant capture has just been made: the record holds the passed
\* pawn and its square is empty.
C29_Witness ==
    /\ lastOp = "makeMove"
    /\ lastOk
    /\ Len(moveHistory) > 0
    /\ moveHistory[Len(moveHistory)].enPassant
    /\ moveHistory[Len(moveHistory)].captured.type = "p"
    /\ getPiece(This, moveHistory[Len(moveHistory)].from.row,
                moveHistory[Len(moveHistory)].to.col) = NoPiece

\* ------------------------------------------------------------------------
\* C30.  The legality probe is reversible: getValidMoves,
\* getAllLegalMoves, isInCheck and the internal hasLegalMoves and
\* isMoveLegal calls leave the board, the side to move, the en-passant
\* target and every other field of the position exactly as they were
\* before the call, for every position and every probed move, en-passant
\* probes included.
\* ------------------------------------------------------------------------

\* Every isMoveLegal probe of a pseudo-legal move of the piece on the square
\* leaves e as it was.
probesRevert(e, row, col) ==
    LET piece == getPiece(e, row, col)
        pseudoLegalMoves == IF piece = NoPiece THEN << >>
                            ELSE getPseudoLegalMoves(e, row, col, piece)
    IN \A i \in 1..Len(pseudoLegalMoves) :
          isMoveLegal(e, row, col, pseudoLegalMoves[i].row,
                      pseudoLegalMoves[i].col, piece).e = e

C30_ProbesAreReversible ==
    /\ \A row, col \in 0..7 :
          /\ getValidMoves(This, row, col).e = This
          /\ probesRevert(This, row, col)
    /\ getAllLegalMoves(This).e = This
    /\ \A color \in {"white", "black"} :
          /\ hasLegalMoves(This, color).e = This
          /\ isCheckmate(This, color).e = This
          /\ isStalemate(This, color).e = This

\* The side to move has an en-passant capture among its legal moves, so
\* the probes took the passed pawn off the board and put it back.
C30_Witness ==
    /\ enPassantTarget # NoSquare
    /\ \E row, col \in 0..7 :
          /\ getPiece(This, row, col) = Piece("p", currentPlayer)
          /\ \E moves \in {getValidMoves(This, row, col).moves} :
                \E i \in 1..Len(moves) :
                   /\ moves[i].enPassant
                   /\ getPiece(This, row, moves[i].col) = Piece("p", Opponent(currentPlayer))

\* ------------------------------------------------------------------------
\* Mate runs: the runs of the AI on positions where the side to move can
\* mate at once or two plies later.
\* ------------------------------------------------------------------------

\* "7k/5K2/8/8/8/3p1p2/3P1P2/4BR2 w - - 0 1": the rook can only go to g1
\* or h1; Rh1 mates at once, and after Rg1 black must play Kh7 and Rh1
\* mates then;
\* "4br2/3p1p2/3P1P2/8/8/8/5k2/7K b - - 0 1": the same with the colours
\* swapped.
MateInputs ==
    << << "7", "k", "/", "5", "K", "2", "/", "8", "/", "8", "/", "8", "/", "3", "p", "1", "p", "2", "/", "3", "P", "1", "P", "2", "/", "4", "B", "R", "2", " ", "w", " ", "-", " ", "-", " ", "0", " ", "1" >>,
       << "4", "b", "r", "2", "/", "3", "p", "1", "p", "2", "/", "3", "P", "1", "P", "2", "/", "8", "/", "8", "/", "8", "/", "5", "k", "2", "/", "7", "K", " ", "b", " ", "-", " ", "-", " ", "0", " ", "1" >> >>

\* engine.loadFromFEN(MateInputs[i]).
MateLoad(i) ==
    /\ lastOp = "reset"
    /\ \E r \in {loadFromFEN(This, MateInputs[i])} :
          /\ Becomes(r.e)
          /\ lastOk' = r.result
    /\ lastOp' = "loadFromFEN"
    /\ root' = i
    /\ UNCHANGED << cloned, before, freeCalls, fenInput, perftVars, aiVars, chessGame >>

NextMate ==
    \/ \E i \in 1..Len(MateInputs) : MateLoad(i)
    \/ \E difficulty \in {"easy", "medium", "hard"} : SetDifficulty(difficulty)
    \/ GetBestMove
    \/ AIPlay

SpecMate == InitAI /\ [][NextMate]_vars

\* ------------------------------------------------------------------------
\* C31.  The score minimax returns for a forced mate depends on the ply at
\* which the mate occurs: for the maximizing side a mate delivered closer
\* to the root scores strictly higher than a mate delivered deeper, and
\* strictly lower for the minimizing side, so that getBestMove with 'hard'
\* prefers a mate in one move over a mate that takes longer.
\* ------------------------------------------------------------------------

\* The root move mates at once.
matesAtOnce(e, move) == clonedAfter(e, move).gameState = "checkmate"

\* The value is that of a mate forced for the side to move at the root
\* within the plies searched.
isMateScore(chessAI, value, isMaximizing) ==
    /\ ~value.threw
    /\ IF isMaximizing THEN value.score >= 100000 - chessAI.depth
                       ELSE value.score <= chessAI.depth - 100000

mateScoresByPly(chessAI, e, search, chosen) ==
    LET isMaximizing == e.currentPlayer = "white"
        n == Len(search.moves)
    IN \A a \in { k \in 1..n : matesAtOnce(e, search.moves[k]) } :
          /\ matesAtOnce(e, chosen.move)
          /\ \A b \in 1..n :
                (isMateScore(chessAI, search.values[b], isMaximizing)
                 /\ ~matesAtOnce(e, search.moves[b]))
                => IF isMaximizing
                   THEN search.values[a].score > search.values[b].score
                   ELSE search.values[a].score < search.values[b].score

C31_MateScoreDependsOnPly ==
    (lastOp = "getBestMove" /\ ai.difficulty = "hard" /\ ~aiCalls[Len(aiCalls)].threw)
    => mateScoresByPly(ai, This, rootSearch(ai, This), aiCalls[Len(aiCalls)])

\* ------------------------------------------------------------------------
\* C32.  With no jitter configured ('hard'), getBestMove returns a root
\* move whose search score is the maximum over all legal root moves when
\* white is to move and the minimum when black is to move, and among the
\* root moves with that best score the one that comes first in the order
\* produced by orderMoves.
\* ------------------------------------------------------------------------

\* The chosen move is the first of the ordered moves whose value no other
\* move's value beats.
isFirstBest(search, chosen, isMaximizing) ==
    \E k \in 1..Len(search.moves) :
        /\ search.moves[k] = chosen.move
        /\ chosen.value = search.values[k].score
        /\ \A j \in 1..Len(search.moves) :
              /\ IF isMaximizing
                 THEN search.values[j].score <= search.values[k].score
                 ELSE search.values[j].score >= search.values[k].score
              /\ j < k => search.values[j].score # search.values[k].score

C32_HardReturnsFirstBest ==
    (lastOp = "getBestMove" /\ ai.difficulty = "hard"
     /\ ~aiCalls[Len(aiCalls)].threw /\ ~noLegalMove(This))
    => isFirstBest(rootSearch(ai, This), aiCalls[Len(aiCalls)], currentPlayer = "white")

\* 'hard' has returned a move, and a later move in the order has the same
\* score.
C32_Witness ==
    /\ lastOp = "getBestMove"
    /\ ai.difficulty = "hard"
    /\ ~aiCalls[Len(aiCalls)].threw
    /\ aiCalls[Len(aiCalls)].move # NullMove
    /\ \E search \in {rootSearch(ai, This)} :
       \E j, k \in 1..Len(search.moves) :
          /\ j < k
          /\ search.moves[j] = aiCalls[Len(aiCalls)].move
          /\ search.values[k].score = search.values[j].score

\* ------------------------------------------------------------------------
\* C33.  getBestMove(position) never changes the position it is given:
\* after the call the board, side to move, castling rights, en-passant
\* target, clocks, gameState, moveHistory, positionHistory and
\* capturedPieces of that position equal their values before the call.
\* ------------------------------------------------------------------------
C33_GetBestMoveLeavesPosition ==
    [][ lastOp' = "getBestMove"
        => /\ board' = board
           /\ currentPlayer' = currentPlayer
           /\ castlingRights' = castlingRights
           /\ enPassantTarget' = enPassantTarget
           /\ halfMoveClock' = halfMoveClock
           /\ fullMoveNumber' = fullMoveNumber
           /\ gameState' = gameState
           /\ moveHistory' = moveHistory
           /\ positionHistory' = positionHistory
           /\ capturedPieces' = capturedPieces ]_vars

\* getBestMove has searched the position and returned a move of it, and
\* the position is the one that was loaded.
C33_Witness ==
    /\ lastOp = "getBestMove"
    /\ ai.difficulty = "medium"
    /\ Len(aiCalls) = 1
    /\ ~aiCalls[1].threw
    /\ aiCalls[1].move # NullMove
    /\ This = loadFromFEN(resetEngine, AIInputs[root]).e

\* ------------------------------------------------------------------------
\* C34.  Search does not need the history: for every position of a game
\* and every legal move, the gameState that makeMove computes on a clone of
\* the position, as the search does, equals the gameState that makeMove
\* computes for the same move on the position itself with its full
\* positionHistory, so a move that ends the game in a draw is seen as a
\* draw by the search.
\* ------------------------------------------------------------------------

\* The gameState after the move of the record is made on a clone of e.
gameStateOnClone(e, record) ==
    makeMove(clone(e), record.from.row, record.from.col, record.to.row, record.to.col,
             IF record.promotion = "" THEN "q" ELSE record.promotion).e.gameState

C34_CloneSeesSameGameState ==
    [][ (lastOp' = "makeMove" /\ lastOk')
        => gameStateOnClone(This, moveHistory'[Len(moveHistory')]) = gameState' ]_vars

\* ------------------------------------------------------------------------
\* C35.  In every state reachable from reset() by makeMove and undoMove
\* calls, if a castling right of a colour is held then that colour's king
\* stands on its home square, a rook of that colour stands on the
\* corresponding home corner, and neither that king nor that rook has
\* moved in the current moveHistory.
\* ------------------------------------------------------------------------

\* A move of the colour's king, or a move from the corner of the side by a
\* rook of the colour, is in the history.
hasMoved(history, color, side) ==
    \E i \in 1..Len(history) :
        /\ history[i].piece.color = color
        /\ \/ history[i].piece.type = "k"
           \/ /\ history[i].piece.type = "r"
              /\ history[i].from = homeCorner(color, side)

C35_RightHeldMeansUnmoved ==
    (root = 0) =>
        \A color \in {"white", "black"} : \A side \in {"kingSide", "queenSide"} :
            castlingRights[color][side]
            => /\ getPiece(This, IF color = "white" THEN 7 ELSE 0, 4) = Piece("k", color)
               /\ getPiece(This, homeCorner(color, side).row, homeCorner(color, side).col)
                  = Piece("r", color)
               /\ ~hasMoved(moveHistory, color, side)

\* ------------------------------------------------------------------------
\* C36.  After every reset, successful loadFromFEN, successful makeMove and
\* successful undoMove, gameState is 'check' or 'checkmate' if and only if
\* a king of the side to move is attacked by the opponent; gameState is
\* never 'playing', 'stalemate' or 'draw' while the side to move is in
\* check.
\* ------------------------------------------------------------------------

\* A king of the colour stands on a square the opponent attacks.
kingAttacked(e, color) ==
    \E row, col \in 0..7 :
        /\ getPiece(e, row, col) = Piece("k", color)
        /\ isSquareAttacked(e, row, col, Opponent(color))

C36_CheckStateIffKingAttacked ==
    (lastOp \in {"reset", "loadFromFEN", "makeMove", "undoMove"} /\ lastOk)
    => /\ gameState \in {"check", "checkmate"} <=> kingAttacked(This, currentPlayer)
       /\ gameState \in {"playing", "check", "checkmate", "stalemate", "draw"}

\* An undoMove has brought back a position in which the side to move is in
\* check.
C36_Witness ==
    /\ lastOp = "undoMove"
    /\ lastOk
    /\ gameState = "check"
    /\ kingAttacked(This, currentPlayer)

\* ------------------------------------------------------------------------
\* C37.  Terminal game states are absorbing for makeMove: once gameState
\* is 'checkmate', 'stalemate' or 'draw', every makeMove call returns null
\* and changes nothing until undoMove, reset or loadFromFEN is called.
\* ------------------------------------------------------------------------
C37_TerminalStatesAbsorbing ==
    [][ (gameState \in {"checkmate", "stalemate", "draw"} /\ lastOp' = "makeMove")
        => /\ ~lastOk'
           /\ UNCHANGED engineVars ]_vars

\* ------------------------------------------------------------------------
\* The play mode of the ChessGame controller (game.js).  The controller
\* owns an engine (the ChessEngine object above) and a ChessAI object
\* (ai); its handlers run on clicks and on the callbacks it hands to
\* setTimeout.  chessGame.timers holds those callbacks in the order they
\* were handed over, each with the milliseconds left until it runs.  The
\* callbacks that only restyle a square (10 ms and 200 ms in
\* makePlayerMove) and the fields that are only displayed (lastMove) are
\* left out.
\* ------------------------------------------------------------------------

\* A callback handed to setTimeout: makeAIMove itself ("makeAIMove"), the
\* rest of makeAIMove after its await ("resume"), and the callbacks of
\* animateMove that makePlayerMove ("playerMove") and makeAIMove ("aiMove")
\* pass, which hold the move they will make.
Timer(kind, due, fromRow, fromCol, toRow, toCol, promotion) ==
    [ kind |-> kind, due |-> due, fromRow |-> fromRow, fromCol |-> fromCol,
      toRow |-> toRow, toCol |-> toCol, promotion |-> promotion ]

\* setTimeout(callback, due).
setTimeout(g, timer) == [g EXCEPT !.timers = Append(@, timer)]

\* The tests of game.js for a finished game.
isGameOver(e) == e.gameState \in {"checkmate", "stalemate", "draw"}

\* startGame(playerColor): the controller, its engine and its ChessAI
\* after the call.  isThinking and the callbacks still waiting are left
\* as they are.
startGame(g, playerColor) ==
    LET started == [g EXCEPT !.gameMode = "play",
                             !.playerColor = playerColor,
                             !.selectedSquare = NoSquare,
                             !.validMoves = << >>,
                             !.isPlayerTurn = (playerColor = "white")]
    IN [ g |-> IF playerColor = "black"
               THEN setTimeout(started, Timer("makeAIMove", 500, -1, -1, -1, -1, "q"))
               ELSE started,
         e |-> resetEngine,
         chessAI |-> setDifficulty(g.difficulty) ]

\* selectSquare(row, col).
selectSquare(g, e, row, col) ==
    LET valid == getValidMoves(e, row, col)
    IN [ g |-> [g EXCEPT !.selectedSquare = [row |-> row, col |-> col],
                         !.validMoves = valid.moves],
         e |-> valid.e ]

\* deselectSquare().
deselectSquare(g) == [g EXCEPT !.selectedSquare = NoSquare, !.validMoves = << >>]

\* The callback makePlayerMove passes to animateMove.
playerMoveCallback(g, e, timer) ==
    LET made == makeMove(e, timer.fromRow, timer.fromCol, timer.toRow, timer.toCol,
                         timer.promotion)
        shown == deselectSquare(g)
    IN [ g |-> IF made.result = NullRecord
               THEN g
               ELSE IF isGameOver(made.e)
               THEN shown
               ELSE setTimeout([shown EXCEPT !.isPlayerTurn = FALSE],
                               Timer("makeAIMove", 500, -1, -1, -1, -1, "q")),
         e |-> made.e,
         moveRecord |-> made.result ]

\* The callback makeAIMove passes to animateMove.
aiMoveCallback(g, e, timer) ==
    LET made == makeMove(e, timer.fromRow, timer.fromCol, timer.toRow, timer.toCol,
                         timer.promotion)
    IN [ g |-> IF made.result # NullRecord /\ isGameOver(made.e)
               THEN [g EXCEPT !.isThinking = FALSE]
               ELSE [g EXCEPT !.isThinking = FALSE, !.isPlayerTurn = TRUE],
         e |-> made.e,
         moveRecord |-> made.result ]

\* A callback of animateMove runs.
animationCallback(g, e, timer) ==
    IF timer.kind = "playerMove"
    THEN playerMoveCallback(g, e, timer)
    ELSE aiMoveCallback(g, e, timer)

\* animateMove(fromRow, fromCol, toRow, toCol, callback): the callback runs
\* at once when the from-square shows no piece, else 260 ms later.  Every
\* handler that changes the engine's board draws it again (renderBoard)
\* before it returns, so the square shows what the engine holds.
animateMove(g, e, callback) ==
    IF getPiece(e, callback.fromRow, callback.fromCol) = NoPiece
    THEN animationCallback(g, e, callback)
    ELSE [ g |-> setTimeout(g, [callback EXCEPT !.due = 260]),
           e |-> e,
           moveRecord |-> NullRecord ]

\* makePlayerMove(fromRow, fromCol, toRow, toCol, promotion).
makePlayerMove(g, e, fromRow, fromCol, toRow, toCol, promotion) ==
    animateMove(g, e, Timer("playerMove", 0, fromRow, fromCol, toRow, toCol, promotion))

\* handleSquareClick(row, col).
handleSquareClick(g, e, row, col) ==
    LET clickedPiece == getPiece(e, row, col)
        own == clickedPiece # NoPiece /\ clickedPiece.color = g.playerColor
        same == [g |-> g, e |-> e, moveRecord |-> NullRecord]
        selected(r) == [g |-> r.g, e |-> r.e, moveRecord |-> NullRecord]
        k == findMove(g.validMoves, row, col)
    IN IF ~g.isPlayerTurn \/ g.isThinking
       THEN same
       ELSE IF isGameOver(e)
       THEN same
       ELSE IF g.selectedSquare # NoSquare
       THEN IF k # 0
            THEN IF g.validMoves[k].promotion
                 THEN [same EXCEPT !.g.pendingPromotion =
                                       [from |-> g.selectedSquare,
                                        to |-> [row |-> row, col |-> col]]]
                 ELSE makePlayerMove(g, e, g.selectedSquare.row, g.selectedSquare.col,
                                     row, col, "q")
            ELSE IF own
            THEN IF g.selectedSquare.row = row /\ g.selectedSquare.col = col
                 THEN [same EXCEPT !.g = deselectSquare(g)]
                 ELSE selected(selectSquare(g, e, row, col))
            ELSE [same EXCEPT !.g = deselectSquare(g)]
       ELSE IF own
       THEN selected(selectSquare(g, e, row, col))
       ELSE same

\* makeAIMove() up to its await: the rest runs 100 ms later.
makeAIMove(g) ==
    setTimeout([g EXCEPT !.isThinking = TRUE], Timer("resume", 100, -1, -1, -1, -1, "q"))

\* What getBestMove needs of the search when it returns a random move or
\* finds no move: the legal moves, none of them valued.
unsearched(e) == [moves |-> getAllLegalMoves(e).moves, values |-> << >>]

\* makeAIMove() after its await, with what the calls of Math.random in
\* getBestMove give.
makeAIMoveResumed(g, e, chessAI, random) ==
    LET bestMove == getBestMoveWith(chessAI, e, unsearched(e), random).move
        left == getBestMoveLeaves(chessAI, e, random)
    IN IF bestMove # NullMove
       THEN animateMove(g, left,
                        Timer("aiMove", 0, bestMove.from.row, bestMove.from.col,
                              bestMove.to.row, bestMove.to.col,
                              IF bestMove.move.promotion THEN "true" ELSE "q"))
       ELSE [ g |-> [g EXCEPT !.isThinking = FALSE, !.isPlayerTurn = TRUE],
              e |-> left,
              moveRecord |-> NullRecord ]

\* undoMove() of the controller (the Undo button).
ChessGame_undoMove(g, e) ==
    IF g.isThinking
    THEN [g |-> g, e |-> e]
    ELSE [ g |-> [deselectSquare(g) EXCEPT !.isPlayerTurn = TRUE],
           e |-> undoMove(undoMove(e).e).e ]

\* ------------------------------------------------------------------------
\* Game runs: the difficulty is chosen in the menu, a colour button starts
\* the game, and then squares and the Undo button are clicked and time
\* passes, in any order.  The games are played at the difficulties of
\* GameDifficulties with Math.random() below randomFactor, so that
\* getBestMove returns a random legal move without a search.
\* ------------------------------------------------------------------------

\* Number of moves in moveHistory up to which squares are clicked.
MaxGamePly == 2

\* Number of waiting callbacks up to which squares are clicked.
MaxTimers == 2

\* Number of clicks on the Undo button: engine.undoMove() restores neither
\* halfMoveClock nor fullMoveNumber, which grow with every move made again.
MaxUndo == 2

\* The difficulty buttons clicked.
GameDifficulties == {"easy"}

\* The squares clicked: e2, e4, e7, e5.
ClickInputs == { << 6, 4 >>, << 4, 4 >>, << 1, 4 >>, << 3, 4 >> }

\* Milliseconds that pass between two events when no callback is due
\* sooner.
PassInputs == {250}

\* Values of Math.floor(Math.random() * moves.length), from 1: the first,
\* the middle and the last of count moves.
pickInputs(count) == IF count = 0 THEN {1} ELSE {1, (count + 1) \div 2, count}

\* The callbacks of g without the i-th.
withoutTimer(g, i) ==
    [g EXCEPT !.timers = SubSeq(@, 1, i - 1) \o SubSeq(@, i + 1, Len(@))]

\* The callback that runs next: the first handed over of those due.
dueTimer(g) ==
    LET due == { i \in 1..Len(g.timers) : g.timers[i].due = 0 }
    IN IF due = {} THEN 0 ELSE CHOOSE i \in due : \A j \in due : i <= j

\* The milliseconds until the next callback is due.
nextDue(g) ==
    CHOOSE d \in { g.timers[i].due : i \in 1..Len(g.timers) } :
        \A i \in 1..Len(g.timers) : d <= g.timers[i].due

\* The history variable after the engine went from e to after.
beforeAfter(e, after) ==
    IF Len(after.moveHistory) > Len(e.moveHistory)
    THEN Append(before, clone(e))
    ELSE SubSeq(before, 1, Len(after.moveHistory))

\* new ChessGame(): a new engine, a ChessAI of 'medium', the menu shown.
InitGame ==
    /\ Is(resetEngine)
    /\ cloned = NoEngine
    /\ lastOp = "reset"
    /\ lastOk = TRUE
    /\ before = << >>
    /\ root = 0
    /\ freeCalls = 0
    /\ fenInput = NoInput
    /\ perftStack = << >>
    /\ perftNodes = 0
    /\ perftCounts = << >>
    /\ ai = setDifficulty("medium")
    /\ aiCalls = << >>
    /\ chessGame = newChessGame

\* A click on a difficulty button of the menu.
DifficultyClick(difficulty) ==
    /\ chessGame.gameMode = "menu"
    /\ chessGame' = [chessGame EXCEPT !.difficulty = difficulty]
    /\ lastOp' = "difficulty"
    /\ UNCHANGED << engineVars, cloned, lastOk, before, root, freeCalls, fenInput,
                    perftVars, aiVars >>

\* A click on a colour button: startGame(color).
StartGame(color) ==
    /\ chessGame.gameMode = "menu"
    /\ chessGame.difficulty \in GameDifficulties
    /\ \E r \in {startGame(chessGame, color)} :
          /\ chessGame' = r.g
          /\ Becomes(r.e)
          /\ ai' = r.chessAI
    /\ before' = << >>
    /\ lastOp' = "startGame"
    /\ lastOk' = TRUE
    /\ UNCHANGED << cloned, root, freeCalls, fenInput, perftVars, aiCalls >>

\* A click on a square of the board: handleSquareClick(row, col).  A click
\* that changes nothing is a stuttering step.
SquareClick(row, col) ==
    /\ chessGame.gameMode = "play"
    /\ Len(moveHistory) < MaxGamePly
    /\ Len(chessGame.timers) < MaxTimers
    /\ \E r \in {handleSquareClick(chessGame, This, row, col)} :
          /\ r.g # chessGame \/ r.e # This
          /\ chessGame' = r.g
          /\ Becomes(r.e)
          /\ before' = beforeAfter(This, r.e)
          /\ lastOp' = IF r.moveRecord # NullRecord THEN "playerMove" ELSE "click"
          /\ lastOk' = TRUE
    /\ UNCHANGED << cloned, root, freeCalls, fenInput, perftVars, aiVars >>

\* A click on the Undo button: undoMove() of the controller.  A click that
\* changes nothing is a stuttering step; freeCalls counts the others.
UndoClick ==
    /\ chessGame.gameMode = "play"
    /\ freeCalls < MaxUndo
    /\ freeCalls' = freeCalls + 1
    /\ \E r \in {ChessGame_undoMove(chessGame, This)} :
          /\ r.g # chessGame \/ r.e # This
          /\ chessGame' = r.g
          /\ Becomes(r.e)
          /\ before' = beforeAfter(This, r.e)
          /\ lastOk' = (r.e # This)
    /\ lastOp' = "undo"
    /\ UNCHANGED << cloned, root, fenInput, perftVars, aiVars >>

\* Time passes while no callback is due: up to the next callback, or less.
Pass ==
    /\ Len(chessGame.timers) > 0
    /\ dueTimer(chessGame) = 0
    /\ \E d \in {nextDue(chessGame)} \cup { p \in PassInputs : p < nextDue(chessGame) } :
          chessGame' = [chessGame EXCEPT !.timers =
                           [i \in 1..Len(@) |-> [@[i] EXCEPT !.due = @ - d]]]
    /\ UNCHANGED << engineVars, gameVars, fenInput, perftVars, aiVars >>

\* The callback () => this.makeAIMove() runs: makeAIMove() up to its await.
MakeAIMoveStarts ==
    /\ \E i \in {dueTimer(chessGame)} :
          /\ i # 0
          /\ chessGame.timers[i].kind = "makeAIMove"
          /\ chessGame' = makeAIMove(withoutTimer(chessGame, i))
    /\ lastOp' = "makeAIMove"
    /\ lastOk' = TRUE
    /\ UNCHANGED << engineVars, cloned, before, root, freeCalls, fenInput, perftVars,
                    aiVars >>

\* makeAIMove() goes on after its await: getBestMove and animateMove.
MakeAIMoveResumes ==
    /\ \E i \in {dueTimer(chessGame)} :
          /\ i # 0
          /\ chessGame.timers[i].kind = "resume"
          /\ \E chance \in { c \in ChanceInputs : c < ai.randomFactor } :
             \E pick \in pickInputs(Len(getAllLegalMoves(This).moves)) :
             \E r \in {makeAIMoveResumed(withoutTimer(chessGame, i), This, ai,
                                         [chance |-> chance, pick |-> pick,
                                          noise |-> << >>])} :
                /\ chessGame' = r.g
                /\ Becomes(r.e)
                /\ before' = beforeAfter(This, r.e)
                /\ lastOp' = IF r.moveRecord # NullRecord THEN "aiMove" ELSE "resume"
    /\ lastOk' = TRUE
    /\ UNCHANGED << cloned, root, freeCalls, fenInput, perftVars, aiVars >>

\* The animation of a player's move ends: the callback of makePlayerMove
\* runs.  lastOk is whether engine.makeMove returned a record.
PlayerMoveLands ==
    /\ \E i \in {dueTimer(chessGame)} :
          /\ i # 0
          /\ chessGame.timers[i].kind = "playerMove"
          /\ \E r \in {playerMoveCallback(withoutTimer(chessGame, i), This,
                                          chessGame.timers[i])} :
                /\ chessGame' = r.g
                /\ Becomes(r.e)
                /\ before' = beforeAfter(This, r.e)
                /\ lastOk' = (r.moveRecord # NullRecord)
    /\ lastOp' = "playerMove"
    /\ UNCHANGED << cloned, root, freeCalls, fenInput, perftVars, aiVars >>

\* The animation of the AI's move ends: the callback of makeAIMove runs.
\* lastOk is whether engine.makeMove returned a record.
AIMoveLands ==
    /\ \E i \in {dueTimer(chessGame)} :
          /\ i # 0
          /\ chessGame.timers[i].kind = "aiMove"
          /\ \E r \in {aiMoveCallback(withoutTimer(chessGame, i), This,
                                      chessGame.timers[i])} :
                /\ chessGame' = r.g
                /\ Becomes(r.e)
                /\ before' = beforeAfter(This, r.e)
                /\ lastOk' = (r.moveRecord # NullRecord)
    /\ lastOp' = "aiMove"
    /\ UNCHANGED << cloned, root, freeCalls, fenInput, perftVars, aiVars >>

NextGame ==
    \/ \E difficulty \in GameDifficulties : DifficultyClick(difficulty)
    \/ \E color \in {"white", "black"} : StartGame(color)
    \/ \E square \in ClickInputs : SquareClick(square[1], square[2])
    \/ UndoClick
    \/ Pass
    \/ MakeAIMoveStarts
    \/ MakeAIMoveResumes
    \/ PlayerMoveLands
    \/ AIMoveLands

SpecGame == InitGame /\ [][NextGame]_vars

\* ------------------------------------------------------------------------
\* C38.  In play mode, whenever no AI move is pending or in progress
\* (isThinking is false and no makeAIMove callback waits) and the game is
\* not over, isPlayerTurn is true and engine.currentPlayer is playerColor:
\* the human can make a move.
\* ------------------------------------------------------------------------
aiMovePending(g) ==
    \/ g.isThinking
    \/ \E i \in 1..Len(g.timers) : g.timers[i].kind = "makeAIMove"

C38_HumanCanMoveWhenAIIdle ==
    (/\ chessGame.gameMode = "play"
     /\ ~aiMovePending(chessGame)
     /\ ~isGameOver(This))
        => /\ chessGame.isPlayerTurn
           /\ currentPlayer = chessGame.playerColor

\* ------------------------------------------------------------------------
\* C39.  In play mode, every move the callback of makeAIMove makes on the
\* engine is a move of the colour the human did not choose, and every move
\* the callback of makePlayerMove makes is a move of playerColor.
\* ------------------------------------------------------------------------
lastMover(history) == history[Len(history)].piece.color

C39_EachSideMovesItsOwnColour ==
    [][ /\ (lastOp' = "aiMove" /\ lastOk')
            => lastMover(moveHistory') # chessGame'.playerColor
        /\ (lastOp' = "playerMove" /\ lastOk')
            => lastMover(moveHistory') = chessGame'.playerColor ]_vars

====
